---- MODULE Spec2Model ----
(***************************************************************************)
(* Model of the spreadsheet ingestion and reconciliation pipeline of       *)
(* backend/data_manager.py: group-id extraction, name normalisation, the   *)
(* roster walk, the schedule walk, and the import request.                 *)
(*                                                                         *)
(* Text is a sequence of one-character strings, so that the conversions    *)
(* of the code (upper, strip, the regular expressions, zero padding) are   *)
(* computed character by character.  A blank spreadsheet cell (pandas NaN) *)
(* is the empty sequence.                                                  *)
(***************************************************************************)
EXTENDS Integers, Sequences, FiniteSets

VARIABLES
    row_data,          \* extract_all_group_ids: the row handed to the function
    all_groups,        \* extract_all_group_ids: the list it returned
    fpc,               \* position of the pure-function call: "call" | "done"
    workbook,          \* the data frames div_a, div_b, sched of the run
    projects,          \* table projects
    members,           \* table members
    panel_assignments, \* table panel_assignments
    group_id,          \* the roster walk's local variable group_id
    pc,                \* position of process_all_data_with_normalization
    runs,              \* completed reconciliation runs
    first_snapshot,    \* the three tables as the first completed run left them
    prior_store,       \* the three tables as the current run or request found them
    upload,            \* import_excel: the uploaded file of the request
    admin_file,        \* ADMIN_FILE_PATH
    admin_metadata,    \* ADMIN_METADATA_PATH
    response,          \* import_excel: the response returned
    name_in,           \* the header or sheet name handed to a normalizer
    normalized,        \* what the normalizer returned
    cell_updates,      \* table cell_updates
    edit_log,          \* the cell edits answered with success, oldest first
    upc,               \* concurrent uploads: the position of each request
    sql_log,           \* the statements executed with an interpolated identifier
    writer_call,       \* the arguments of a call of a cell writer
    writer_cell,       \* the cell the writer was called on, before and after
    otps,              \* otp_storage: the content of otps.json
    session,           \* the Flask session of the browser
    users,             \* table users: the password of each active user
    clock,             \* datetime.now(), in minutes
    auth_log           \* the OTP requests answered: their number, the last one, the email verified

coreVars == <<row_data, all_groups, fpc, workbook, projects, members,
              panel_assignments, group_id, pc, runs, first_snapshot,
              prior_store, upload, admin_file, admin_metadata, response>>
normVars == <<name_in, normalized>>
editVars == <<cell_updates, edit_log>>
raceVars == <<upc>>
sqlVars == <<sql_log>>
writerVars == <<writer_call, writer_cell>>
authVars == <<otps, session, users, clock, auth_log>>
laterVars == <<normVars, editVars, raceVars, sqlVars, writerVars, authVars>>

vars == <<row_data, all_groups, fpc, workbook, projects, members,
          panel_assignments, group_id, pc, runs, first_snapshot,
          prior_store, upload, admin_file, admin_metadata, response, laterVars>>

\* the variables of the normalizer calls, of the cell edits, of the
\* concurrent uploads, of the statement log, of the cell writers and of the
\* password reset are at rest
NormIdle == name_in = <<>> /\ normalized = <<>>
EditIdle == cell_updates = {} /\ edit_log = <<>>
RaceIdle == upc = <<>>
SqlIdle == sql_log = <<>>
WriterIdle == writer_call = <<>> /\ writer_cell = <<>>
AuthIdle ==
    /\ otps = <<>>
    /\ session = <<>>
    /\ users = <<>>
    /\ clock = 0
    /\ auth_log = <<>>
LaterIdle == NormIdle /\ EditIdle /\ RaceIdle /\ SqlIdle /\ WriterIdle /\ AuthIdle

----------------------------------------------------------------------------
(* Characters and text                                                     *)

UpperLetters == <<"A","B","C","D","E","F","G","H","I","J","K","L","M",
                  "N","O","P","Q","R","S","T","U","V","W","X","Y","Z">>
LowerLetters == <<"a","b","c","d","e","f","g","h","i","j","k","l","m",
                  "n","o","p","q","r","s","t","u","v","w","x","y","z">>
DigitChars == <<"0","1","2","3","4","5","6","7","8","9">>

Range(f) == {f[i] : i \in DOMAIN f}

UpperSet == Range(UpperLetters)
LowerSet == Range(LowerLetters)
DigitSet == Range(DigitChars)
SpaceSet == {" ", "\n", "\t", "\r"}
WordSet == UpperSet \cup LowerSet \cup DigitSet \cup {"_"}

IsUpper(c) == c \in UpperSet
IsLower(c) == c \in LowerSet
IsDigit(c) == c \in DigitSet
\* Python's \s on the characters of the model
IsSpace(c) == c \in SpaceSet
\* Python's \w
IsWord(c) == c \in WordSet

IndexOf(seq, c) == CHOOSE i \in DOMAIN seq : seq[i] = c

\* the characters of the model, in the order of their codes
CodeOrder == <<"\t", "\n", "\r", " ", "$", ",", "-", ".">> \o DigitChars
             \o UpperLetters \o <<"_">> \o LowerLetters \o <<"|">>

Alphabet == Range(CodeOrder)

UpperTable ==
    [c \in Alphabet |->
        IF c \in LowerSet THEN UpperLetters[IndexOf(LowerLetters, c)] ELSE c]
LowerTable ==
    [c \in Alphabet |->
        IF c \in UpperSet THEN LowerLetters[IndexOf(UpperLetters, c)] ELSE c]
CodeTable == [c \in Alphabet |-> IndexOf(CodeOrder, c)]

UpperChar(c) == UpperTable[c]
LowerChar(c) == LowerTable[c]
CharCode(c) == CodeTable[c]

\* str.upper(), str.lower()
str_upper(s) == [i \in DOMAIN s |-> UpperChar(s[i])]
str_lower(s) == [i \in DOMAIN s |-> LowerChar(s[i])]

RECURSIVE str_lstrip(_)
str_lstrip(s) ==
    IF s # <<>> /\ IsSpace(Head(s)) THEN str_lstrip(Tail(s)) ELSE s

RECURSIVE str_rstrip(_)
str_rstrip(s) ==
    IF s # <<>> /\ IsSpace(s[Len(s)])
    THEN str_rstrip(SubSeq(s, 1, Len(s) - 1)) ELSE s

\* str.strip()
str_strip(s) == str_rstrip(str_lstrip(s))

\* s[a:b] of Python, 0-based and end-exclusive, clipped to the text
Slice(s, a, b) ==
    LET hi == IF b > Len(s) THEN Len(s) ELSE b
    IN  IF a >= hi THEN <<>> ELSE SubSeq(s, a + 1, hi)

\* str.startswith
str_startswith(s, p) == Len(s) >= Len(p) /\ SubSeq(s, 1, Len(p)) = p

\* the character at 1-based position k, or a non-word mark outside the text
CharAt(s, k) == IF k \in DOMAIN s THEN s[k] ELSE "$"

\* \b of a regular expression, before the character at position k
WordBoundary(s, k) == IsWord(CharAt(s, k - 1)) # IsWord(CharAt(s, k))

\* Python's s < t on text
RECURSIVE str_less(_, _)
str_less(s, t) ==
    IF t = <<>> THEN FALSE
    ELSE IF s = <<>> THEN TRUE
    ELSE IF Head(s) = Head(t) THEN str_less(Tail(s), Tail(t))
    ELSE CharCode(Head(s)) < CharCode(Head(t))

\* sorted(list(S)) for a set of texts
RECURSIVE sorted(_)
sorted(S) ==
    IF S = {} THEN <<>>
    ELSE LET m == CHOOSE x \in S : \A y \in S \ {x} : str_less(x, y)
         IN  <<m>> \o sorted(S \ {m})

----------------------------------------------------------------------------
(* extract_all_group_ids                                                   *)

\* BI[AB] at position i
PrefixAt(s, i) ==
    /\ CharAt(s, i) = "B"
    /\ CharAt(s, i + 1) = "I"
    /\ CharAt(s, i + 2) \in {"A", "B"}

RECURSIVE SkipSpaces(_, _)
SkipSpaces(s, k) == IF IsSpace(CharAt(s, k)) THEN SkipSpaces(s, k + 1) ELSE k

\* \d{1,2}\b at position k: the position after the match, or 0.  The
\* quantifier is greedy and gives one digit back when \b fails after two.
DigitsEnd(s, k) ==
    IF IsDigit(CharAt(s, k)) /\ IsDigit(CharAt(s, k + 1)) /\ WordBoundary(s, k + 2)
    THEN k + 2
    ELSE IF IsDigit(CharAt(s, k)) /\ WordBoundary(s, k + 1)
    THEN k + 1
    ELSE 0

\* \b(BI[AB]-?\s*\d{1,2})\b at position i: the position after the match, or 0
StandardEnd(s, i) ==
    IF WordBoundary(s, i) /\ PrefixAt(s, i)
    THEN LET j == IF CharAt(s, i + 3) = "-" THEN i + 4 ELSE i + 3
         IN  DigitsEnd(s, SkipSpaces(s, j))
    ELSE 0

\* \b(BI[AB]\d{1,2})\b at position i
NoHyphenEnd(s, i) ==
    IF WordBoundary(s, i) /\ PrefixAt(s, i) THEN DigitsEnd(s, i + 3) ELSE 0

\* \b(BI[AB])\s+(\d{1,2})\b at position i
SpaceEnd(s, i) ==
    IF WordBoundary(s, i) /\ PrefixAt(s, i) /\ IsSpace(CharAt(s, i + 3))
    THEN DigitsEnd(s, SkipSpaces(s, i + 3))
    ELSE 0

PatternEnd(kind, s, i) ==
    CASE kind = "standard" -> StandardEnd(s, i)
      [] kind = "no_hyphen" -> NoHyphenEnd(s, i)
      [] kind = "space" -> SpaceEnd(s, i)

\* re.findall: the non-overlapping matches of a pattern, left to right
RECURSIVE FindAllFrom(_, _, _)
FindAllFrom(kind, s, i) ==
    IF i > Len(s) THEN {}
    ELSE LET e == PatternEnd(kind, s, i)
         IN  IF e = 0 THEN FindAllFrom(kind, s, i + 1)
             ELSE {SubSeq(s, i, e - 1)} \cup FindAllFrom(kind, s, e)

findall(kind, s) == FindAllFrom(kind, s, 1)

RECURSIVE DropSeparators(_)
DropSeparators(s) ==
    IF s # <<>> /\ (Head(s) = "-" \/ IsSpace(Head(s)))
    THEN DropSeparators(Tail(s)) ELSE s

StandardCleanUnpadded(m) ==
    Slice(m, 0, 3) \o <<"-">> \o DropSeparators(Slice(m, 3, Len(m)))

\* re.sub(r'(BI[AB])[-\s]*(\d{1,2})', r'\1-\2', match), then the padding
\* of a five-character result

StandardClean(m) ==
    LET clean_match == Slice(m, 0, 3) \o <<"-">> \o DropSeparators(Slice(m, 3, Len(m)))
    IN  IF Len(clean_match) = 5
        THEN Slice(clean_match, 0, 4) \o <<"0">> \o Slice(clean_match, 4, 5)
        ELSE clean_match

NoHyphenFormat(m) ==
    IF Len(m) = 5 THEN Slice(m, 0, 3) \o <<"-">> \o Slice(m, 3, 5)
    ELSE IF Len(m) = 4 THEN Slice(m, 0, 3) \o <<"-", "0">> \o Slice(m, 3, 4)
    ELSE m

\* num.zfill(2)
zfill2(num) == IF Len(num) < 2 THEN <<"0">> \o num ELSE num

SpaceFormat(m) ==
    Slice(m, 0, 3) \o <<"-">> \o zfill2(str_lstrip(Slice(m, 3, Len(m))))

\* the identifiers one cell adds to all_groups
CellGroups(cell_value) ==
    IF cell_value = <<>> THEN {}
    ELSE LET cell_str == str_strip(str_upper(cell_value))
         IN  {StandardClean(m) : m \in findall("standard", cell_str)}
             \cup {NoHyphenFormat(m) : m \in findall("no_hyphen", cell_str)}
             \cup {SpaceFormat(m) : m \in findall("space", cell_str)}

extract_all_group_ids(row) ==
    sorted(UNION {CellGroups(row[i]) : i \in DOMAIN row})

----------------------------------------------------------------------------
(* normalize_name                                                          *)

Honorifics == {<<"d","r">>, <<"p","r","o","f">>,
               <<"p","r","o","f","e","s","s","o","r">>}

SingleLetters == {<<LowerLetters[i]>> : i \in DOMAIN LowerLetters}

\* str.replace(old, new) for one-character old and new
str_replace(s, old, new) == [i \in DOMAIN s |-> IF s[i] = old THEN new ELSE s[i]]

\* str.replace(old, "") for a one-character old
str_remove(s, old) == SelectSeq(s, LAMBDA c : c # old)

RECURSIVE WordEnd(_, _)
WordEnd(s, i) == IF IsWord(CharAt(s, i)) THEN WordEnd(s, i + 1) ELSE i

\* re.sub(r"\b(w1|w2|...)\b", "", s): every maximal run of word characters
\* that is one of the words is removed
RECURSIVE RemoveWordsFrom(_, _, _)
RemoveWordsFrom(s, i, words) ==
    IF i > Len(s) THEN <<>>
    ELSE IF IsWord(s[i])
    THEN LET e == WordEnd(s, i)
             w == SubSeq(s, i, e - 1)
         IN  (IF w \in words THEN <<>> ELSE w) \o RemoveWordsFrom(s, e, words)
    ELSE <<s[i]>> \o RemoveWordsFrom(s, i + 1, words)

\* re.sub(r"\s+", " ", s)
RECURSIVE CollapseSpaces(_)
CollapseSpaces(s) ==
    IF s = <<>> THEN <<>>
    ELSE IF IsSpace(Head(s))
    THEN <<" ">> \o CollapseSpaces(str_lstrip(s))
    ELSE <<Head(s)>> \o CollapseSpaces(Tail(s))

normalize_name(name) ==
    IF name = <<>> THEN <<>>
    ELSE LET lowered == str_lower(name)
             spaced == str_replace(str_replace(lowered, "\n", " "), "\r", " ")
             undotted == str_remove(spaced, ".")
             untitled == RemoveWordsFrom(undotted, 1, Honorifics)
             bare == RemoveWordsFrom(untitled, 1, SingleLetters)
         IN  str_strip(CollapseSpaces(bare))

----------------------------------------------------------------------------
(* The relational store.  projects is keyed by group_id, members by        *)
(* (group_id, roll_no), panel_assignments by group_id.  A member row       *)
(* carries src_row, the sheet row that inserted it; src_row is history     *)
(* only and is read by no operation.                                       *)

Blank == <<>>
None == <<>>

\* pd.notnull(v) and str(v).strip()
NonEmpty(cell) == cell # Blank /\ str_strip(cell) # <<>>

\* str(v).strip()[:n] if pd.notnull(v) else ""
CellText(cell, n) == IF cell # Blank THEN Slice(str_strip(cell), 0, n) ELSE <<>>

MaxDomainLen == 255
MaxTitleLen == 500
MaxSponsorLen == 255
MaxGuideLen == 100
MaxStudentNameLen == 100

HasProject(P, g) == \E p \in P : p.group_id = g
ProjectOf(P, g) == CHOOSE p \in P : p.group_id = g


InsertOverwriteProject(P, row) ==
    {p \in P : p.group_id # row.group_id} \cup {row}

\* INSERT IGNORE INTO projects: a row whose key exists is left as it is
InsertIgnoreProject(P, row) ==
    IF HasProject(P, row.group_id) THEN P ELSE P \cup {row}

HasMember(M, g, r) == \E m \in M : m.group_id = g /\ m.roll_no = r

\* INSERT IGNORE INTO members
InsertIgnoreMember(M, row) ==
    IF HasMember(M, row.group_id, row.roll_no) THEN M ELSE M \cup {row}

----------------------------------------------------------------------------
(* process_division_enhanced_with_normalization                            *)

BI == <<"B", "I">>
BIA == <<"B", "I", "A">>
BIB == <<"B", "I", "B">>

\* the group-id normalisation of the roster walk: the first test accepts
\* every text that starts with BI, so the second branch is never taken
NormalizeGroupId(g) ==
    IF str_startswith(g, BI) THEN g
    ELSE IF str_startswith(g, BIA) \/ str_startswith(g, BIB)
    THEN IF (\A i \in DOMAIN g : g[i] # "-") /\ Len(g) >= 5
         THEN Slice(g, 0, 3) \o <<"-">> \o Slice(g, 3, Len(g))
         ELSE g
    ELSE g

\* group_id = None at the start of a division's walk
InitialGroupKept(previous) == previous

InitialGroup(previous) == None

\* the walk's group_id after the Group No. cell of a row has been read
RowGroupForgetful(current, row) ==
    IF NonEmpty(row.group_no)
    THEN NormalizeGroupId(str_strip(row.group_no))
    ELSE None

RowGroup(current, row) ==
    IF NonEmpty(row.group_no)
    THEN NormalizeGroupId(str_strip(row.group_no))
    ELSE current

\* the processing of the row raises at the named place: "row" in the body of
\* the loop before anything is stored, "project" and "member" in the INSERT
\* of the table, "assign" in assign_evaluators_from_panel
Raises(row, place) == "fault" \in DOMAIN row /\ row.fault = place

AfterRowAbort(i, n, raised) == IF raised THEN n + 1 ELSE i + 1

\* except Exception: log, continue -- the walk goes on with the next row
\* whether the row has raised or not
AfterRow(i, n, raised) == i + 1

ProjectRow(g, division_name, row) ==
    [group_id |-> g,
     division |-> division_name,
     project_domain |-> CellText(row.project_domain, MaxDomainLen),
     project_title |-> CellText(row.project_title, MaxTitleLen),
     sponsor_company |-> CellText(row.sponsor_company, MaxSponsorLen),
     guide_name |-> CellText(row.guide_name, MaxGuideLen),
     evaluator1_name |-> <<>>,
     evaluator2_name |-> <<>>]

MemberRow(g, division_name, i, row) ==
    [group_id |-> g,
     roll_no |-> str_strip(row.roll_no),
     student_name |-> Slice(str_strip(row.student_name), 0, MaxStudentNameLen),
     contact_details |-> IF row.contact_details # Blank
                         THEN str_strip(row.contact_details) ELSE <<>>,
     src_row |-> <<division_name, i>>]

\* one iteration of the loop over df.iterrows(): st holds group_id and the
\* two tables the walk writes
RosterStep(st, division_name, i, row) ==
    IF Raises(row, "row") THEN st
    ELSE
    LET g == RowGroup(st.group_id, row)
        P == IF NonEmpty(row.group_no) /\ ~Raises(row, "project")
             THEN InsertIgnoreProject(st.projects, ProjectRow(g, division_name, row))
             ELSE st.projects
        M == IF /\ g # None /\ NonEmpty(row.roll_no) /\ NonEmpty(row.student_name)
                /\ ~Raises(row, "member")
             THEN InsertIgnoreMember(st.members, MemberRow(g, division_name, i, row))
             ELSE st.members
    IN  [group_id |-> g, projects |-> P, members |-> M]

RECURSIVE RosterWalk(_, _, _, _)
RosterWalk(st, division_name, df, i) ==
    IF i > Len(df) THEN st
    ELSE RosterWalk(RosterStep(st, division_name, i, df[i]), division_name, df,
                    AfterRow(i, Len(df), Raises(df[i], "row")))

\* the whole function: the walk from group_id = None, then the commit
process_division_enhanced_with_normalization(df, division_name, previous, P, M) ==
    RosterWalk([group_id |-> InitialGroup(previous), projects |-> P, members |-> M],
               division_name, df, 1)

----------------------------------------------------------------------------
(* assign_evaluators_from_panel                                            *)

DefaultProfs == <<<<"D", "e", "f", "a", "u", "l", "t", " ", "P", "r", "o", "f", " ", "1">>,
                  <<"D", "e", "f", "a", "u", "l", "t", " ", "P", "r", "o", "f", " ", "2">>,
                  <<"D", "e", "f", "a", "u", "l", "t", " ", "P", "r", "o", "f", " ", "3">>>>
DefaultEval1 == <<"D", "e", "f", "a", "u", "l", "t", " ", "E", "v", "a", "l", " ", "1">>
DefaultEval2 == <<"D", "e", "f", "a", "u", "l", "t", " ", "E", "v", "a", "l", " ", "2">>

\* the panel the function works with: a list of fewer than two names is
\* replaced by the three default professors
EffectivePanel(panel_professors) ==
    IF Len(panel_professors) < 2 THEN DefaultProfs ELSE panel_professors

\* SELECT guide_name FROM projects WHERE group_id = %s
GuideOf(P, g) == IF HasProject(P, g) THEN ProjectOf(P, g).guide_name ELSE <<>>

\* the list comprehension that builds available_evaluators; guide_norm is
\* normalize_name(guide_name)
AvailableUnfiltered(profs, guide_norm) == profs

AvailableEvaluators(profs, guide_norm) ==
    SelectSeq(profs, LAMBDA prof : normalize_name(prof) # guide_norm)

Assignment(P, panel, g) ==
    LET guide_name == GuideOf(P, g)
        available_evaluators == AvailableEvaluators(panel, normalize_name(guide_name))
    IN  [group_id |-> g,
         guide |-> guide_name,
         evaluator1 |-> IF Len(available_evaluators) > 0
                        THEN available_evaluators[1] ELSE DefaultEval1,
         evaluator2 |-> IF Len(available_evaluators) > 1
                        THEN available_evaluators[2] ELSE DefaultEval2]

assign_evaluators_from_panel(P, panel_professors, group_ids) ==
    [k \in DOMAIN group_ids |->
        Assignment(P, EffectivePanel(panel_professors), group_ids[k])]

----------------------------------------------------------------------------
(* The schedule walk of process_all_data_with_normalization                *)

IsAllDigits(s) == s # <<>> /\ \A i \in DOMAIN s : IsDigit(s[i])

\* int(track) for a cell of unsigned decimal digits; any other text raises
RECURSIVE int_of(_)
int_of(s) ==
    IF s = <<>> THEN 0
    ELSE int_of(SubSeq(s, 1, Len(s) - 1)) * 10 + (IndexOf(DigitChars, s[Len(s)]) - 1)

\* f"{track}"
RECURSIVE str_of_int(_)
str_of_int(n) ==
    IF n < 10 THEN <<DigitChars[n + 1]>>
    ELSE str_of_int(n \div 10) \o <<DigitChars[(n % 10) + 1]>>

\* str.split on one-character separators
RECURSIVE SplitOn(_, _)
SplitOn(s, seps) ==
    IF \A i \in DOMAIN s : s[i] \notin seps THEN <<s>>
    ELSE LET k == CHOOSE i \in DOMAIN s :
                     s[i] \in seps /\ \A j \in 1..(i - 1) : s[j] \notin seps
         IN  <<SubSeq(s, 1, k - 1)>> \o SplitOn(SubSeq(s, k + 1, Len(s)), seps)

RECURSIVE KeepProfs(_)
KeepProfs(lines) ==
    IF lines = <<>> THEN <<>>
    ELSE LET clean_prof == str_strip(Head(lines))
         IN  (IF Len(clean_prof) > 3 /\ ~IsAllDigits(clean_prof)
              THEN <<clean_prof>> ELSE <<>>) \o KeepProfs(Tail(lines))

NanText == <<"n", "a", "n">>

DefaultPanel(track) ==
    LET head == <<"D", "e", "f", "a", "u", "l", "t", " ", "P", "a", "n", "e", "l", " ">> \o str_of_int(track)
    IN  <<head \o <<" ", "P", "r", "o", "f", " ", "1">>,
          head \o <<" ", "P", "r", "o", "f", " ", "2">>,
          head \o <<" ", "P", "r", "o", "f", " ", "3">>>>

\* panel_profs of a row: the names parsed from the panel cell, or the
\* three placeholders of the track when none survives
ParsedPanel(cell) ==
    IF cell # Blank /\ cell # NanText
    THEN KeepProfs(SplitOn(cell, {"\n", ",", "|"}))
    ELSE <<>>

PanelProfs(cell, track) ==
    IF ParsedPanel(cell) = <<>> THEN DefaultPanel(track) ELSE ParsedPanel(cell)

LocationOf(cell, track) ==
    IF cell # Blank THEN str_strip(cell)
    ELSE <<"R", "o", "o", "m", " ">> \o str_of_int(track)

\* '\n'.join(names)
RECURSIVE JoinLines(_)
JoinLines(names) ==
    IF names = <<>> THEN <<>>
    ELSE IF Len(names) = 1 THEN names[1]
    ELSE names[1] \o <<"\n">> \o JoinLines(Tail(names))

\* [str(val) for val in row.values if pd.notnull(val)]
RowValues(row) ==
    SelectSeq(<<row.track, row.panel, row.group_ids, row.location>>,
              LAMBDA v : v # Blank)

\* a row whose Track cell is blank is passed over; one whose Track is not a
\* number raises in int() and is passed over by the handler of the loop
TrackUsable(row) == row.track # Blank /\ IsAllDigits(str_strip(row.track))

HasPanel(PA, g) == \E a \in PA : a.group_id = g

\* INSERT INTO panel_assignments ... ON DUPLICATE KEY UPDATE
InsertIgnorePanel(PA, row) ==
    IF HasPanel(PA, row.group_id) THEN PA ELSE PA \cup {row}

UpsertPanel(PA, row) ==
    IF HasPanel(PA, row.group_id)
    THEN {IF a.group_id = row.group_id
          THEN [row EXCEPT !.reviewer3 = a.reviewer3] ELSE a : a \in PA}
    ELSE PA \cup {row}

\* UPDATE projects SET evaluator1_name = %s, evaluator2_name = %s WHERE group_id = %s
SetEvaluators(P, g, e1, e2) ==
    {IF p.group_id = g
     THEN [p EXCEPT !.evaluator1_name = e1, !.evaluator2_name = e2] ELSE p : p \in P}

\* the loop over the assignments of one row
RECURSIVE ApplyAssignments(_, _, _, _, _, _)
ApplyAssignments(st, assignments, k, track, panel_profs, location) ==
    IF k > Len(assignments) THEN st
    ELSE LET a == assignments[k]
             row == [group_id |-> a.group_id,
                     track |-> track,
                     panel_professors |-> JoinLines(panel_profs),
                     location |-> location,
                     guide |-> a.guide,
                     reviewer1 |-> a.evaluator1,
                     reviewer2 |-> a.evaluator2,
                     reviewer3 |-> None]
         IN  ApplyAssignments(
                 [projects |-> SetEvaluators(st.projects, a.group_id,
                                             a.evaluator1, a.evaluator2),
                  panel_assignments |-> UpsertPanel(st.panel_assignments, row)],
                 assignments, k + 1, track, panel_profs, location)

\* one iteration of the loop over sched.iterrows()
ScheduleStep(st, row) ==
    IF ~TrackUsable(row) THEN st
    ELSE LET track == int_of(str_strip(row.track))
             panel_profs == PanelProfs(row.panel, track)
             location == LocationOf(row.location, track)
             group_ids == extract_all_group_ids(RowValues(row))
         IN  IF group_ids = <<>> \/ Raises(row, "assign") THEN st
             ELSE ApplyAssignments(
                      st, assign_evaluators_from_panel(st.projects, panel_profs, group_ids),
                      1, track, panel_profs, location)

RECURSIVE ScheduleWalk(_, _, _)
ScheduleWalk(st, sched, i) ==
    IF i > Len(sched) THEN st
    ELSE ScheduleWalk(ScheduleStep(st, sched[i]), sched,
                      AfterRow(i, Len(sched),
                               (sched[i].track # Blank /\ ~TrackUsable(sched[i]))
                                   \/ Raises(sched[i], "assign")))

----------------------------------------------------------------------------
(* Workbooks: the rows a sheet may hold, and the stores a run may find     *)

MaxRosterRows == 2
MaxSchedRows == 2
MaxRuns == 2

\* a header row whose group id is written BIA1, with a member
RowHeaderSurface ==
    [group_no |-> <<"B", "I", "A", "1">>, roll_no |-> <<"2", "1">>, student_name |-> <<"A", "s", "h", "a", " ", "K">>,
     contact_details |-> <<"9", "8">>, project_domain |-> Blank, project_title |-> <<"T", "1">>,
     sponsor_company |-> Blank, guide_name |-> <<"D", "r", ".", " ", "A", " ", "B", " ", "S", "e", "n">>]

\* a member row without a header
RowMember22 ==
    [group_no |-> Blank, roll_no |-> <<"2", "2">>, student_name |-> <<"R", "a", "v", "i", " ", "M">>,
     contact_details |-> Blank, project_domain |-> Blank, project_title |-> Blank,
     sponsor_company |-> Blank, guide_name |-> Blank]

\* a header row with the canonical id BIA-01, with a member
RowHeaderCanonical ==
    [group_no |-> <<"B", "I", "A", "-", "0", "1">>, roll_no |-> <<"2", "1">>, student_name |-> <<"A", "s", "h", "a", " ", "K">>,
     contact_details |-> Blank, project_domain |-> <<"M", "L">>, project_title |-> <<"T", "2">>,
     sponsor_company |-> <<"A", "c", "m", "e">>, guide_name |-> <<"P", "r", "o", "f", ".", " ", "R", "a", "o">>]

\* a member row whose Group No. cell holds only a space
RowMemberSpaceHeader ==
    [group_no |-> <<" ">>, roll_no |-> <<"2", "3">>, student_name |-> <<"Z", "o", "y", "a">>,
     contact_details |-> Blank, project_domain |-> Blank, project_title |-> Blank,
     sponsor_company |-> Blank, guide_name |-> Blank]

\* a header row of division B, with a member
RowHeaderB ==
    [group_no |-> <<"B", "I", "B", "-", "0", "1">>, roll_no |-> <<"3", "1">>, student_name |-> <<"M", "e", "e", "r", "a">>,
     contact_details |-> Blank, project_domain |-> Blank, project_title |-> <<"T", "4">>,
     sponsor_company |-> Blank, guide_name |-> <<"a", " ", "b", " ", "s", "e", "n">>]

\* a member row without a header, the roll number of RowMember22
RowMemberB ==
    [group_no |-> Blank, roll_no |-> <<"2", "2">>, student_name |-> <<"R", "a", "v", "i", " ", "M">>,
     contact_details |-> <<" ", "9", "7", " ">>, project_domain |-> Blank, project_title |-> Blank,
     sponsor_company |-> Blank, guide_name |-> Blank]

\* a header row that names BIA-01 again, in the sheet of division B or lower
\* in the sheet of division A, with another title and guide and no member
RowHeaderOtherDivision ==
    [group_no |-> <<"B", "I", "A", "-", "0", "1">>, roll_no |-> Blank, student_name |-> Blank,
     contact_details |-> Blank, project_domain |-> Blank, project_title |-> <<"T", "3">>,
     sponsor_company |-> Blank, guide_name |-> <<"Z", " ", "W", " ", "R", "o", "y">>]

\* three panel names, two groups, no location
SchedThreeNames ==
    [track |-> <<"3">>,
     panel |-> <<"D", "r", ".", " ", "A", " ", "B", " ", "S", "e", "n", "\n", "P", "r", "o", "f", ".", " ", "R", "a", "o", "\n", ",", " ", "Z", " ", "W", " ", "R", "o", "y">>,
     group_ids |-> <<"B", "I", "A", "-", "0", "1", " ", "B", "I", "B", "-", "0", "1">>,
     location |-> Blank]

\* a single panel name; groups written bia1 and BIA-02
SchedSingleName ==
    [track |-> <<"1">>,
     panel |-> <<"P", "r", "o", "f", ".", " ", "R", "a", "o">>,
     group_ids |-> <<"b", "i", "a", "1", ",", " ", "B", "I", "A", "-", "0", "2">>,
     location |-> <<"L", "a", "b", " ", "2">>]

\* a blank Track cell
SchedBlankTrack ==
    [track |-> Blank,
     panel |-> <<"Z", " ", "W", " ", "R", "o", "y", ",", " ", "P", "r", "o", "f", ".", " ", "R", "a", "o">>,
     group_ids |-> <<"B", "I", "A", "-", "0", "1">>,
     location |-> <<"H", "a", "l", "l">>]

\* a blank panel cell; the group written BIB 1; a location of one space
SchedBlankPanel ==
    [track |-> <<"2">>,
     panel |-> Blank,
     group_ids |-> <<"B", "I", "B", " ", "1">>,
     location |-> <<" ">>]

\* a Track cell that is no number
SchedTextTrack ==
    [track |-> <<"T", "4">>,
     panel |-> <<"Z", " ", "W", " ", "R", "o", "y", ",", "P", "r", "o", "f", ".", " ", "R", "a", "o">>,
     group_ids |-> <<"B", "I", "B", "-", "0", "1">>,
     location |-> Blank]

\* a panel of two spellings of one guide and a number; two groups
SchedGuideTwice ==
    [track |-> <<"4">>,
     panel |-> <<"A", " ", "B", " ", "S", "E", "N", ",", " ", "d", "r", ".", " ", "s", "e", "n", ",", "1", "2", "3", "4", "5">>,
     group_ids |-> <<"B", "I", "B", "-", "0", "1", ",", "B", "I", "A", "-", "0", "1">>,
     location |-> Blank]

RosterRowsA == {RowHeaderSurface, RowMember22, RowHeaderCanonical, RowMemberSpaceHeader,
                RowHeaderOtherDivision}

RosterRowsB == {RowHeaderB, RowMemberB, RowHeaderOtherDivision}

\* a panel of two names, one of them the guide of BIA-01 in RowHeaderCanonical
SchedGuideAndOther ==
    [track |-> <<"5">>,
     panel |-> <<"P", "r", "o", "f", ".", " ", "R", "a", "o", ",", "A", " ", "B", " ", "S", "e", "n">>,
     group_ids |-> <<"B", "I", "A", " ", "0", "1">>,
     location |-> <<"L", "a", "b", " ", "5">>]

SchedRows == {SchedThreeNames, SchedSingleName, SchedBlankTrack, SchedBlankPanel,
              SchedTextTrack, SchedGuideTwice, SchedGuideAndOther}

SeqsUpTo(S, n) == UNION {[1..k -> S] : k \in 0..n}

\* every roster of up to MaxRosterRows rows per sheet, with a schedule of at
\* most one row
RosterWorkbooks ==
    {[div_a |-> a, div_b |-> b, sched |-> sc] :
        a \in SeqsUpTo(RosterRowsA, MaxRosterRows),
        b \in SeqsUpTo(RosterRowsB, MaxRosterRows),
        sc \in SeqsUpTo(SchedRows, 1)}

\* every schedule of up to MaxSchedRows rows, over three rosters: canonical
\* groups with guides, a surface-form group, and no group at all
ScheduleRosters ==
    {<< <<RowHeaderCanonical, RowMember22>>, <<RowHeaderB, RowMemberB>> >>,
     << <<RowHeaderSurface>>, <<RowHeaderOtherDivision>> >>,
     << <<>>, <<>> >>}

ScheduleWorkbooks ==
    {[div_a |-> r[1], div_b |-> r[2], sched |-> sc] :
        r \in ScheduleRosters, sc \in SeqsUpTo(SchedRows, MaxSchedRows)}

Workbooks == RosterWorkbooks \cup ScheduleWorkbooks

EmptyStore == [projects |-> {}, members |-> {}, panel_assignments |-> {}]

\* what an earlier upload and later edits have left
StaleStore ==
    [projects |-> {
    [group_id |-> <<"B", "I", "A", "-", "0", "1">>, division |-> "A", project_domain |-> <<"I", "o", "T">>,
     project_title |-> <<"O", "l", "d">>, sponsor_company |-> <<>>, guide_name |-> <<"O", " ", "G", "u", "i", "d", "e">>,
     evaluator1_name |-> <<"O", " ", "E", "v", "a", "l">>, evaluator2_name |-> <<"P", "r", "o", "f", ".", " ", "R", "a", "o">>],
    [group_id |-> <<"B", "I", "B", "-", "0", "9">>, division |-> "B", project_domain |-> <<>>,
     project_title |-> <<"G", "o", "n", "e">>, sponsor_company |-> <<>>, guide_name |-> <<"Z", " ", "W", " ", "R", "o", "y">>,
     evaluator1_name |-> <<>>, evaluator2_name |-> <<>>]},
     members |-> {
        [group_id |-> <<"B", "I", "A", "-", "0", "1">>, roll_no |-> <<"2", "1">>,
         student_name |-> <<"O", "l", "d">>, contact_details |-> <<>>,
         src_row |-> <<"earlier", 1>>],
        [group_id |-> <<"B", "I", "B", "-", "0", "9">>, roll_no |-> <<"9", "9">>,
         student_name |-> <<"G", "o", "n", "e">>, contact_details |-> <<>>,
         src_row |-> <<"earlier", 2>>]},
     panel_assignments |-> {
        [group_id |-> <<"B", "I", "A", "-", "0", "1">>, track |-> 9,
         panel_professors |-> <<"O", " ", "G", "u", "i", "d", "e", "\n", "O", " ", "E", "v", "a", "l">>,
         location |-> <<"R", "o", "o", "m", " ", "9">>, guide |-> <<"O", " ", "G", "u", "i", "d", "e">>,
         reviewer1 |-> <<"O", " ", "E", "v", "a", "l">>, reviewer2 |-> <<"P", "r", "o", "f", ".", " ", "R", "a", "o">>,
         reviewer3 |-> <<"T", "h", "i", "r", "d">>],
        [group_id |-> <<"B", "I", "B", "-", "0", "9">>, track |-> 9,
         panel_professors |-> <<"O", " ", "G", "u", "i", "d", "e", "\n", "O", " ", "E", "v", "a", "l">>,
         location |-> <<"R", "o", "o", "m", " ", "9">>, guide |-> <<"Z", " ", "W", " ", "R", "o", "y">>,
         reviewer1 |-> <<"O", " ", "G", "u", "i", "d", "e">>, reviewer2 |-> <<"O", " ", "E", "v", "a", "l">>,
         reviewer3 |-> None]}]

PriorStores == {EmptyStore, StaleStore}

----------------------------------------------------------------------------
(* process_all_data_with_normalization, one action per commit              *)

Snapshot(P, M, PA) == [projects |-> P, members |-> M, panel_assignments |-> PA]

\* DELETE FROM panel_assignments / members / projects and the commit
DeletedProjectsKept(P) == P

DeletedProjects(P) == {}

DeleteAll ==
    /\ pc = "start"
    /\ panel_assignments' = {}
    /\ members' = {}
    /\ projects' = DeletedProjects(projects)
    /\ pc' = "div_a"
    /\ UNCHANGED <<row_data, all_groups, fpc, workbook, group_id, runs,
                   first_snapshot, prior_store, upload, admin_file, admin_metadata,
                   response,
                   laterVars>>

ProcessDivision(df, division_name, next_pc) ==
    LET st == process_division_enhanced_with_normalization(
                  df, division_name, group_id, projects, members)
    IN  /\ group_id' = st.group_id
        /\ projects' = st.projects
        /\ members' = st.members
        /\ pc' = next_pc
        /\ UNCHANGED <<row_data, all_groups, fpc, workbook, panel_assignments, runs,
                       first_snapshot, prior_store, upload, admin_file,
                       admin_metadata, response,
                   laterVars>>

ProcessDivisionA ==
    /\ pc = "div_a"
    /\ ProcessDivision(workbook.div_a, "A", "div_b")

ProcessDivisionB ==
    /\ pc = "div_b"
    /\ ProcessDivision(workbook.div_b, "B", "schedule")

ProcessSchedule ==
    /\ pc = "schedule"
    /\ LET st == ScheduleWalk([projects |-> projects,
                               panel_assignments |-> panel_assignments],
                              workbook.sched, 1)
       IN  /\ projects' = st.projects
           /\ panel_assignments' = st.panel_assignments
           /\ first_snapshot' = IF runs = 0
                                THEN Snapshot(st.projects, members, st.panel_assignments)
                                ELSE first_snapshot
    /\ runs' = runs + 1
    /\ pc' = "done"
    /\ UNCHANGED <<row_data, all_groups, fpc, workbook, members, group_id,
                   prior_store, upload, admin_file, admin_metadata, response,
                   laterVars>>

\* the same workbook is processed again (load_stored_file, or a second upload
\* of the file)
Rerun ==
    /\ pc = "done"
    /\ runs < MaxRuns
    /\ pc' = "start"
    /\ prior_store' = Snapshot(projects, members, panel_assignments)
    /\ UNCHANGED <<row_data, all_groups, fpc, workbook, projects, members,
                   panel_assignments, group_id, runs, first_snapshot,
                   upload, admin_file, admin_metadata, response,
                   laterVars>>

Init ==
    /\ workbook \in Workbooks
    /\ \E store \in PriorStores :
          /\ projects = store.projects
          /\ members = store.members
          /\ panel_assignments = store.panel_assignments
          /\ prior_store = store
    /\ group_id = None
    /\ pc = "start"
    /\ runs = 0
    /\ first_snapshot = EmptyStore
    /\ row_data = <<>>
    /\ all_groups = <<>>
    /\ fpc = "idle"
    /\ upload = <<>>
    /\ admin_file = <<>>
    /\ admin_metadata = <<>>
    /\ response = <<>>
    /\ LaterIdle

Next ==
    \/ DeleteAll
    \/ ProcessDivisionA
    \/ ProcessDivisionB
    \/ ProcessSchedule
    \/ Rerun

Spec == Init /\ [][Next]_vars

----------------------------------------------------------------------------
(* Properties of the reconciliation run                                    *)

Divisions == {"A", "B"}

SheetOf(d) == IF d = "A" THEN workbook.div_a ELSE workbook.div_b

\* the walk of division d has been committed in the current run
Walked(d) ==
    IF d = "A" THEN pc \in {"div_b", "schedule", "done"}
    ELSE pc \in {"schedule", "done"}

\* row i of sheet d is a member row: roll number and student name are there
IsMemberRow(d, i) ==
    NonEmpty(SheetOf(d)[i].roll_no) /\ NonEmpty(SheetOf(d)[i].student_name)

HeaderRowsUpTo(d, i) == {j \in 1..i : NonEmpty(SheetOf(d)[j].group_no)}

Max(S) == CHOOSE x \in S : \A y \in S : y <= x

\* C1: processing the same workbook a second time leaves the projects,
\* members and panel assignments exactly as the first run left them.
Thm_C1_RerunSameSnapshot ==
    (pc = "done" /\ runs >= 2) =>
        Snapshot(projects, members, panel_assignments) = first_snapshot

Wit_C1_RerunSameSnapshot ==
    /\ pc = "done" /\ runs = 2
    /\ projects # {} /\ members # {} /\ panel_assignments # {}
    /\ \E p \in projects : p.evaluator1_name # <<>>

ProjectFromWorkbook(p) ==
    \E d \in Divisions : \E i \in DOMAIN SheetOf(d) :
        LET row == SheetOf(d)[i]
        IN  /\ NonEmpty(row.group_no)
            /\ p.group_id = str_strip(row.group_no)
            /\ p.division = d
            /\ p.project_domain = str_strip(row.project_domain)
            /\ p.project_title = str_strip(row.project_title)
            /\ p.sponsor_company = str_strip(row.sponsor_company)
            /\ p.guide_name = str_strip(row.guide_name)

MemberFromWorkbook(m) ==
    \E d \in Divisions : \E i \in DOMAIN SheetOf(d) :
        LET row == SheetOf(d)[i]
        IN  /\ m.roll_no = str_strip(row.roll_no)
            /\ m.student_name = str_strip(row.student_name)
            /\ m.contact_details = str_strip(row.contact_details)
            /\ \E j \in HeaderRowsUpTo(d, i) :
                  m.group_id = str_strip(SheetOf(d)[j].group_no)

PanelFromWorkbook(a) ==
    \E i \in DOMAIN workbook.sched :
        LET row == workbook.sched[i]
        IN  /\ IsAllDigits(str_strip(row.track))
            /\ a.track = int_of(str_strip(row.track))
            /\ \E k \in DOMAIN row.group_ids : PrefixAt(str_upper(row.group_ids), k)
            /\ a.reviewer3 = None

\* C2: after a completed run every project, member and panel assignment
\* comes from a row of the workbook of the run; a row of the store the run
\* found survives only if the workbook yields it again.
Thm_C2_FullReplace ==
    pc = "done" =>
        /\ \A p \in projects : ProjectFromWorkbook(p)
        /\ \A m \in members : MemberFromWorkbook(m)
        /\ \A a \in panel_assignments : PanelFromWorkbook(a)

Wit_C2_FullReplace ==
    /\ pc = "done"
    /\ prior_store = StaleStore
    /\ \E p \in projects : p.group_id = <<"B", "I", "A", "-", "0", "1">> /\ p.guide_name # <<"O", " ", "G", "u", "i", "d", "e">>
    /\ members # {} /\ panel_assignments # {}

Thm_C4_NoBackwardAttach ==
    \A m \in members : \A d \in Divisions :
        (m.src_row[1] = d /\ m.src_row[2] \in DOMAIN SheetOf(d)) =>
            HeaderRowsUpTo(d, m.src_row[2]) # {}

Wit_C4_NoBackwardAttach ==
    /\ pc = "done"
    /\ workbook.div_a = <<RowMember22, RowHeaderCanonical>>
    /\ workbook.div_b = <<RowMemberB>>
    /\ HasProject(projects, <<"B", "I", "A", "-", "0", "1">>)
    /\ \A m \in members : m.roll_no # <<"2", "2">>

\* BI[AB]-NN
IsCanonicalGroupId(g) ==
    /\ Len(g) = 6
    /\ PrefixAt(g, 1)
    /\ g[4] = "-"
    /\ IsDigit(g[5]) /\ IsDigit(g[6])

\* C5: every group id the roster walk stores, as a project key or as a
\* member's group, is canonical.
Claim_C5_StoredIdsCanonical ==
    pc = "done" =>
        /\ \A p \in projects : IsCanonicalGroupId(p.group_id)
        /\ \A m \in members : IsCanonicalGroupId(m.group_id)

----------------------------------------------------------------------------
(* extract_all_group_ids as a function: rows that write one group in the   *)
(* three surface forms                                                     *)

MaxCells == 2

SeqDigits == {"0", "7"}

\* sequence numbers of one or two digits
SeqNumbers == {<<a>> : a \in SeqDigits} \cup {<<a, b>> : a, b \in SeqDigits}

\* BIx-n, BIxn and BIx n
SurfaceForms(x, n) ==
    {BI \o <<x, "-">> \o n, BI \o <<x>> \o n, BI \o <<x, " ">> \o n}

\* every way of writing the three letters in upper or lower case
CaseVariants(s) ==
    {[i \in DOMAIN s |-> IF i \in low THEN LowerChar(s[i]) ELSE s[i]] :
        low \in SUBSET (1..3)}

FormCells(x, n) == UNION {CaseVariants(f) : f \in SurfaceForms(x, n)}

\* cells that name no group: a blank cell and a location
FillerCells == {Blank, <<"L", "a", "b", " ", "2">>}

ExtractRows ==
    UNION {[1..k -> FormCells(x, n) \cup FillerCells] :
              k \in 1..MaxCells, x \in {"A", "B"}, n \in SeqNumbers}

CallExtract ==
    /\ fpc = "call"
    /\ all_groups' = extract_all_group_ids(row_data)
    /\ fpc' = "done"
    /\ UNCHANGED <<row_data, workbook, projects, members, panel_assignments,
                   group_id, pc, runs, first_snapshot, prior_store, upload,
                   admin_file, admin_metadata, response,
                   laterVars>>

InitExtract ==
    /\ row_data \in ExtractRows
    /\ all_groups = <<>>
    /\ fpc = "call"
    /\ workbook = [div_a |-> <<>>, div_b |-> <<>>, sched |-> <<>>]
    /\ projects = {}
    /\ members = {}
    /\ panel_assignments = {}
    /\ prior_store = EmptyStore
    /\ group_id = None
    /\ pc = "idle"
    /\ runs = 0
    /\ first_snapshot = EmptyStore
    /\ upload = <<>>
    /\ admin_file = <<>>
    /\ admin_metadata = <<>>
    /\ response = <<>>
    /\ LaterIdle

NextExtract == CallExtract

SpecExtract == InitExtract /\ [][NextExtract]_vars

\* BIx-NN, written out from the division letter and the sequence number
CanonicalId(x, n) == BI \o <<x, "-">> \o (IF Len(n) = 1 THEN <<"0">> \o n ELSE n)

\* C6: a row that writes one group BIx-n in the hyphenated, concatenated or
\* spaced form, in any letter case and in any number of its cells, yields
\* exactly the list of the one identifier BIx-NN.
Thm_C6_SurfaceFormsCanonical ==
    fpc = "done" =>
        \A x \in {"A", "B"} : \A n \in SeqNumbers :
            ((\E i \in DOMAIN row_data : row_data[i] \in FormCells(x, n))
                /\ \A i \in DOMAIN row_data :
                      row_data[i] \in FormCells(x, n) \cup FillerCells)
            => all_groups = <<CanonicalId(x, n)>>

Wit_C6_SurfaceFormsCanonical ==
    /\ fpc = "done"
    /\ row_data = <<<<"b", "I", "a", "7">>, <<"B", "I", "A", " ", "7">>>>
    /\ all_groups = <<<<"B", "I", "A", "-", "0", "7">>>>

----------------------------------------------------------------------------
(* Properties of the schedule walk                                         *)

\* the groups a schedule row references
GroupsOfRow(i) == Range(extract_all_group_ids(RowValues(workbook.sched[i])))

\* the rows that reference group g, and those of them with a numeric Track
RowsFor(g) == {i \in DOMAIN workbook.sched : g \in GroupsOfRow(i)}
NumericTrackRowsFor(g) ==
    {i \in RowsFor(g) : IsAllDigits(str_strip(workbook.sched[i].track))}

ReferencedGroups == UNION {GroupsOfRow(i) : i \in DOMAIN workbook.sched}
NumericTrackGroups == {g \in ReferencedGroups : NumericTrackRowsFor(g) # {}}

SameName(a, b) == normalize_name(a) = normalize_name(b)

\* e is the n-th name of panel, in panel order, that is not the guide's, or
\* the placeholder when fewer than n such names exist
IsNthAvailable(panel, guide, n, placeholder, e) ==
    LET keep == {j \in DOMAIN panel : ~SameName(panel[j], guide)}
    IN  IF Cardinality(keep) >= n
        THEN \E j \in keep : Cardinality({k \in keep : k < j}) = n - 1 /\ e = panel[j]
        ELSE e = placeholder

\* C7: no evaluator of a group has the normalised name of the group's guide.
Thm_C7_GuideNeverEvaluator ==
    pc = "done" =>
        \A a \in panel_assignments :
            LET guide == GuideOf(projects, a.group_id)
            IN  /\ normalize_name(a.reviewer1) # normalize_name(guide)
                /\ normalize_name(a.reviewer2) # normalize_name(guide)

Wit_C7_GuideNeverEvaluator ==
    /\ pc = "done"
    /\ \E a \in panel_assignments :
          /\ a.group_id = <<"B", "I", "B", "-", "0", "1">>
          /\ a.guide = <<"a", " ", "b", " ", "s", "e", "n">>
          /\ a.panel_professors = JoinLines(<<<<"D", "r", ".", " ", "A", " ", "B", " ", "S", "e", "n">>,
                                              <<"P", "r", "o", "f", ".", " ", "R", "a", "o">>,
                                              <<"Z", " ", "W", " ", "R", "o", "y">>>>)
          /\ a.reviewer1 = <<"P", "r", "o", "f", ".", " ", "R", "a", "o">>
          /\ a.reviewer2 = <<"Z", " ", "W", " ", "R", "o", "y">>

\* the panel names of the last numeric-track row that references g
LastPanelFor(g) ==
    LET row == workbook.sched[Max(NumericTrackRowsFor(g))]
    IN  PanelProfs(row.panel, int_of(str_strip(row.track)))

\* C8, as claimed: the evaluators of a group are the first and the second of
\* the row's panel names that are not the guide's, in panel order, or the
\* placeholders Default Eval 1 and Default Eval 2, for every panel size.
Claim_C8_EvaluatorsFromRowPanel ==
    pc = "done" =>
        \A a \in panel_assignments :
            LET guide == GuideOf(projects, a.group_id)
                panel == LastPanelFor(a.group_id)
            IN  /\ IsNthAvailable(panel, guide, 1, DefaultEval1, a.reviewer1)
                /\ IsNthAvailable(panel, guide, 2, DefaultEval2, a.reviewer2)

\* a is the panel assignment that the row i gives group g: the track, the
\* panel text, the location and the guide of the row, and the evaluators
\* assigned from the panel of the row
FromRow(a, g, i) ==
    LET row == workbook.sched[i]
        track == int_of(str_strip(row.track))
        panel == EffectivePanel(PanelProfs(row.panel, track))
        guide == GuideOf(projects, g)
    IN  /\ a.group_id = g
        /\ a.track = track
        /\ a.panel_professors = JoinLines(PanelProfs(row.panel, track))
        /\ a.location = LocationOf(row.location, track)
        /\ a.guide = guide
        /\ IsNthAvailable(panel, guide, 1, DefaultEval1, a.reviewer1)
        /\ IsNthAvailable(panel, guide, 2, DefaultEval2, a.reviewer2)

ProjectAgrees(a) ==
    \A p \in projects :
        p.group_id = a.group_id =>
            /\ p.evaluator1_name = a.reviewer1
            /\ p.evaluator2_name = a.reviewer2

\* C9, as claimed: after a run every group the schedule references has
\* exactly one panel assignment, taken from the last row that references it,
\* and its project carries the same two evaluators.
Claim_C9_OnePanelPerReferencedGroup ==
    pc = "done" =>
        /\ \A a \in panel_assignments : a.group_id \in ReferencedGroups
        /\ \A g \in ReferencedGroups :
              /\ Cardinality({a \in panel_assignments : a.group_id = g}) = 1
              /\ \A a \in panel_assignments :
                    a.group_id = g =>
                        /\ Max(RowsFor(g)) \in NumericTrackRowsFor(g)
                        /\ FromRow(a, g, Max(RowsFor(g)))
                        /\ ProjectAgrees(a)

\* C9, amended: the same for the groups referenced by a row whose Track cell
\* holds a number, the last such row deciding; rows with a blank or
\* non-numeric Track create and change nothing.
Thm_C9_OnePanelPerScheduledGroup ==
    pc = "done" =>
        /\ \A a \in panel_assignments : a.group_id \in NumericTrackGroups
        /\ \A g \in NumericTrackGroups :
              /\ Cardinality({a \in panel_assignments : a.group_id = g}) = 1
              /\ \A a \in panel_assignments :
                    a.group_id = g =>
                        /\ FromRow(a, g, Max(NumericTrackRowsFor(g)))
                        /\ ProjectAgrees(a)

\* two rows reference BIA-01; the second one decides, and the project agrees
Wit_C9_OnePanelPerScheduledGroup ==
    /\ pc = "done"
    /\ workbook.sched = <<SchedThreeNames, SchedGuideAndOther>>
    /\ \E a \in panel_assignments :
          /\ a.group_id = <<"B", "I", "A", "-", "0", "1">>
          /\ a.track = 5
          /\ \E p \in projects :
                p.group_id = a.group_id /\ p.evaluator1_name = <<"A", " ", "B", " ", "S", "e", "n">>

----------------------------------------------------------------------------
(* detect_and_normalize_sheets_robust                                      *)

\* pattern in text
Contains(text, pattern) ==
    \E i \in 1..(Len(text) - Len(pattern) + 1) :
        SubSeq(text, i, i + Len(pattern) - 1) = pattern

DivAPatterns ==
    {<<"F", "I", "N", "A", "L", " ", "D", "I", "V", " ", "A">>,
     <<"F", "I", "N", "A", "L", "D", "I", "V", "A">>,
     <<"F", "I", "N", "A", "L", "_", "D", "I", "V", "_", "A">>,
     <<"F", "I", "N", "A", "L", "-", "D", "I", "V", "-", "A">>,
     <<"D", "I", "V", " ", "A">>,
     <<"D", "I", "V", "A">>,
     <<"D", "I", "V", "-", "A">>,
     <<"D", "I", "V", "_", "A">>,
     <<"D", "I", "V", "I", "S", "I", "O", "N", " ", "A">>,
     <<"D", "I", "V", "I", "S", "I", "O", "N", "A">>,
     <<"D", "I", "V", "I", "S", "I", "O", "N", "-", "A">>,
     <<"D", "I", "V", "I", "S", "I", "O", "N", "_", "A">>}

DivBPatterns ==
    {<<"F", "I", "N", "A", "L", " ", "D", "I", "V", " ", "B">>,
     <<"F", "I", "N", "A", "L", "D", "I", "V", "B">>,
     <<"F", "I", "N", "A", "L", "_", "D", "I", "V", "_", "B">>,
     <<"F", "I", "N", "A", "L", "-", "D", "I", "V", "-", "B">>,
     <<"D", "I", "V", " ", "B">>,
     <<"D", "I", "V", "B">>,
     <<"D", "I", "V", "-", "B">>,
     <<"D", "I", "V", "_", "B">>,
     <<"D", "I", "V", "I", "S", "I", "O", "N", " ", "B">>,
     <<"D", "I", "V", "I", "S", "I", "O", "N", "B">>,
     <<"D", "I", "V", "I", "S", "I", "O", "N", "-", "B">>,
     <<"D", "I", "V", "I", "S", "I", "O", "N", "_", "B">>}

SchedulePatterns ==
    {<<"S", "C", "H", "E", "D", "U", "L", "E">>,
     <<"S", "C", "H", "E", "D">>,
     <<"P", "A", "N", "E", "L", " ", "S", "C", "H", "E", "D", "U", "L", "E">>,
     <<"E", "V", "A", "L", "U", "A", "T", "I", "O", "N", " ", "S", "C", "H", "E", "D", "U", "L", "E">>,
     <<"P", "A", "N", "E", "L", "_", "S", "C", "H", "E", "D", "U", "L", "E">>,
     <<"E", "V", "A", "L", "U", "A", "T", "I", "O", "N", "_", "S", "C", "H", "E", "D", "U", "L", "E">>,
     <<"P", "A", "N", "E", "L", "-", "S", "C", "H", "E", "D", "U", "L", "E">>}

\* the branch of the if / elif / elif that a sheet name takes
RoleOfCaseSensitive(sheet_name) ==
    LET sheet_upper == str_strip(sheet_name)
    IN  IF \E pattern \in DivAPatterns : Contains(sheet_upper, pattern) THEN "div_a"
        ELSE IF \E pattern \in DivBPatterns : Contains(sheet_upper, pattern) THEN "div_b"
        ELSE IF \E pattern \in SchedulePatterns : Contains(sheet_upper, pattern)
        THEN "schedule"
        ELSE "none"

RoleOfScheduleFirst(sheet_name) ==
    LET sheet_upper == str_strip(str_upper(sheet_name))
    IN  IF \E pattern \in SchedulePatterns : Contains(sheet_upper, pattern)
        THEN "schedule"
        ELSE IF \E pattern \in DivAPatterns : Contains(sheet_upper, pattern) THEN "div_a"
        ELSE IF \E pattern \in DivBPatterns : Contains(sheet_upper, pattern) THEN "div_b"
        ELSE "none"

RoleOf(sheet_name) ==
    LET sheet_upper == str_strip(str_upper(sheet_name))
    IN  IF \E pattern \in DivAPatterns : Contains(sheet_upper, pattern) THEN "div_a"
        ELSE IF \E pattern \in DivBPatterns : Contains(sheet_upper, pattern) THEN "div_b"
        ELSE IF \E pattern \in SchedulePatterns : Contains(sheet_upper, pattern)
        THEN "schedule"
        ELSE "none"

Roles == <<"div_a", "div_b", "schedule">>

RECURSIVE DetectFrom(_, _, _)
DetectFrom(detected_sheets, sheet_names, i) ==
    IF i > Len(sheet_names) THEN detected_sheets
    ELSE LET role == RoleOf(sheet_names[i])
         IN  DetectFrom(IF role = "none" THEN detected_sheets
                        ELSE [detected_sheets EXCEPT ![role] = sheet_names[i]],
                        sheet_names, i + 1)

detect_and_normalize_sheets_robust(sheet_names) ==
    DetectFrom([role \in Range(Roles) |-> None], sheet_names, 1)

----------------------------------------------------------------------------
(* import_excel and save_admin_file                                        *)

NoFile == [exists |-> FALSE]

\* missing_sheets = [key for key, value in detected_sheets.items() if value is None]
MissingSheetsIgnored(detected_sheets) == <<>>

MissingSheets(detected_sheets) ==
    SelectSeq(Roles, LAMBDA role : detected_sheets[role] = None)

Metadata(request, detected_sheets) ==
    [exists |-> TRUE,
     sheet_names |-> detected_sheets,
     upload_date |-> request.received,
     original_filename |-> request.filename]

StoredFile(request) ==
    [exists |-> TRUE, sheet_names |-> request.sheet_names, book |-> request.book]

\* the request carries no file
ImportExcelNoFile ==
    /\ pc = "request"
    /\ ~upload.present
    /\ response' = [success |-> FALSE, status |-> 400, missing |-> <<>>,
                    available |-> <<>>, detected |-> <<>>, saved |-> FALSE]
    /\ pc' = "returned"
    /\ UNCHANGED <<row_data, all_groups, fpc, workbook, projects, members,
                   panel_assignments, group_id, runs, first_snapshot, prior_store,
                   upload, admin_file, admin_metadata,
                   laterVars>>

\* a role without a sheet: the request is answered with the error
ImportExcelReject ==
    /\ pc = "request"
    /\ upload.present
    /\ LET detected_sheets == detect_and_normalize_sheets_robust(upload.sheet_names)
       IN  /\ MissingSheets(detected_sheets) # <<>>
           /\ response' = [success |-> FALSE, status |-> 400,
                           missing |-> MissingSheets(detected_sheets),
                           available |-> upload.sheet_names,
                           detected |-> detected_sheets, saved |-> FALSE]
    /\ pc' = "returned"
    /\ UNCHANGED <<row_data, all_groups, fpc, workbook, projects, members,
                   panel_assignments, group_id, runs, first_snapshot, prior_store,
                   upload, admin_file, admin_metadata,
                   laterVars>>

\* save_admin_file writes the workbook, then the metadata; a write that
\* raises leaves what follows it undone and makes the function return False.
\* The sheets are then read into the three data frames.
ImportExcelSave ==
    /\ pc = "request"
    /\ upload.present
    /\ LET detected_sheets == detect_and_normalize_sheets_robust(upload.sheet_names)
       IN  /\ MissingSheets(detected_sheets) = <<>>
           /\ \E outcome \in {"saved", "file_failed", "metadata_failed"} :
                 /\ admin_file' = IF outcome = "file_failed" THEN admin_file
                                  ELSE StoredFile(upload)
                 /\ admin_metadata' = IF outcome = "saved"
                                      THEN Metadata(upload, detected_sheets)
                                      ELSE admin_metadata
                 /\ response' = [success |-> FALSE, status |-> 0, missing |-> <<>>,
                                 available |-> upload.sheet_names,
                                 detected |-> detected_sheets,
                                 saved |-> (outcome = "saved")]
    /\ workbook' = upload.book
    /\ pc' = "start"
    /\ UNCHANGED <<row_data, all_groups, fpc, projects, members, panel_assignments,
                   group_id, runs, first_snapshot, prior_store, upload,
                   laterVars>>

\* the reconciliation has run: the request is answered with success
ImportExcelReturn ==
    /\ pc = "done"
    /\ response' = [response EXCEPT !.success = TRUE, !.status = 200]
    /\ pc' = "returned"
    /\ UNCHANGED <<row_data, all_groups, fpc, workbook, projects, members,
                   panel_assignments, group_id, runs, first_snapshot, prior_store,
                   upload, admin_file, admin_metadata,
                   laterVars>>

MaxSheets == 3

SheetNamePool ==
    {<<"F", "I", "N", "A", "L", " ", "D", "I", "V", "-", "A">>,
     <<"F", "i", "n", "a", "l", " ", "D", "i", "v", " ", "B", " ">>,
     <<"P", "a", "n", "e", "l", " ", "S", "c", "h", "e", "d", "u", "l", "e">>,
     <<"S", "h", "e", "e", "t", "1">>,
     <<"d", "i", "v", "a", " ", "o", "l", "d">>,
     <<"S", "c", "h", "e", "d", " ", "D", "i", "v", " ", "B">>,
     <<"D", "i", "v", " ", "A", " ", "D", "i", "v", " ", "B">>}

\* the sheet names of a workbook: no name twice
SheetLists ==
    {names \in SeqsUpTo(SheetNamePool, MaxSheets) :
        \A i, j \in DOMAIN names : i # j => names[i] # names[j]}

UploadBooks ==
    {[div_a |-> <<RowHeaderCanonical, RowMember22>>,
      div_b |-> <<RowHeaderB>>,
      sched |-> <<SchedThreeNames>>],
     [div_a |-> <<RowHeaderSurface>>, div_b |-> <<>>, sched |-> <<SchedSingleName>>]}

Uploads ==
    {[present |-> TRUE, filename |-> "new.xlsx", received |-> "now",
      sheet_names |-> names, book |-> book] :
        names \in SheetLists, book \in UploadBooks}
    \cup {[present |-> FALSE]}

\* the workbook and the metadata an earlier upload has left
OldFile ==
    [exists |-> TRUE,
     sheet_names |-> <<<<"D", "I", "V", " ", "A">>, <<"D", "I", "V", " ", "B">>, <<"S", "C", "H", "E", "D">>>>,
     book |-> [div_a |-> <<RowHeaderCanonical>>, div_b |-> <<>>, sched |-> <<>>]]

OldMetadata ==
    [exists |-> TRUE,
     sheet_names |-> [div_a |-> <<"D", "I", "V", " ", "A">>, div_b |-> <<"D", "I", "V", " ", "B">>,
                      schedule |-> <<"S", "C", "H", "E", "D">>],
     upload_date |-> "earlier",
     original_filename |-> "old.xlsx"]

InitImport ==
    /\ upload \in Uploads
    /\ \E store \in PriorStores :
          /\ projects = store.projects
          /\ members = store.members
          /\ panel_assignments = store.panel_assignments
          /\ prior_store = store
    /\ \/ admin_file = NoFile /\ admin_metadata = NoFile
       \/ admin_file = OldFile /\ admin_metadata = OldMetadata
    /\ response = <<>>
    /\ workbook = [div_a |-> <<>>, div_b |-> <<>>, sched |-> <<>>]
    /\ group_id = None
    /\ pc = "request"
    /\ runs = 0
    /\ first_snapshot = EmptyStore
    /\ row_data = <<>>
    /\ all_groups = <<>>
    /\ fpc = "idle"
    /\ LaterIdle

NextImport ==
    \/ ImportExcelNoFile
    \/ ImportExcelReject
    \/ ImportExcelSave
    \/ DeleteAll
    \/ ProcessDivisionA
    \/ ProcessDivisionB
    \/ ProcessSchedule
    \/ ImportExcelReturn

SpecImport == InitImport /\ [][NextImport]_vars

\* the uploaded workbook has no sheet for at least one role
LacksRole ==
    /\ upload.present
    /\ \E role \in Range(Roles) :
          detect_and_normalize_sheets_robust(upload.sheet_names)[role] = None

\* C10: a request whose workbook lacks a sheet for a role is answered with an
\* error that names the missing roles and the sheet list, and leaves the
\* stored workbook, its metadata and the three tables as they were.
Thm_C10_RejectChangesNothing ==
    [][(pc = "request" /\ LacksRole) =>
          /\ response'.success = FALSE
          /\ response'.status = 400
          /\ Range(response'.missing) =
                {role \in Range(Roles) :
                    detect_and_normalize_sheets_robust(upload.sheet_names)[role] = None}
          /\ response'.available = upload.sheet_names
          /\ pc' = "returned"
          /\ UNCHANGED <<admin_file, admin_metadata, projects, members,
                         panel_assignments>>]_vars

Wit_C10_RejectChangesNothing ==
    /\ pc = "returned"
    /\ upload.present
    /\ upload.sheet_names = <<<<"P", "a", "n", "e", "l", " ", "S", "c", "h", "e", "d", "u", "l", "e">>, <<"F", "I", "N", "A", "L", " ", "D", "I", "V", "-", "A">>>>
    /\ response.success = FALSE
    /\ response.missing = <<"div_b">>
    /\ admin_file = OldFile /\ admin_metadata = OldMetadata
    /\ Snapshot(projects, members, panel_assignments) = StaleStore

----------------------------------------------------------------------------
(* Properties of the sheet classifier                                      *)

PatternsOf(role) ==
    CASE role = "div_a" -> DivAPatterns
      [] role = "div_b" -> DivBPatterns
      [] role = "schedule" -> SchedulePatterns

\* the upper-cased, stripped name contains a keyword of the role
MatchesRole(name, role) ==
    \E pattern \in PatternsOf(role) : Contains(str_strip(str_upper(name)), pattern)

\* the names of the uploaded workbook that match a keyword of the role
MatchingNames(role) ==
    {name \in Range(upload.sheet_names) : MatchesRole(name, role)}

OneMatchPerRole == \A role \in Range(Roles) : Cardinality(MatchingNames(role)) = 1

Permutations(names) ==
    {other \in [DOMAIN names -> Range(names)] : Range(other) = Range(names)}

\* every role holds the one name that matches it, in whatever order the
\* names are listed
AllRolesPopulated ==
    /\ \A role \in Range(Roles) : response.detected[role] \in MatchingNames(role)
    /\ \A other \in Permutations(upload.sheet_names) :
          detect_and_normalize_sheets_robust(other) = response.detected

\* C11, as claimed: a list with exactly one name matching each of the three
\* keyword sets gets all three roles populated with those names, in every
\* order of the list.
Claim_C11_OneMatchPerRolePopulated ==
    (pc = "returned" /\ upload.present /\ OneMatchPerRole) => AllRolesPopulated

\* C11, amended: the same, for three different names, one for each role.
Thm_C11_ThreeNamesPopulated ==
    (/\ pc = "returned" /\ upload.present /\ OneMatchPerRole
     /\ \A r1, r2 \in Range(Roles) : r1 # r2 => MatchingNames(r1) # MatchingNames(r2))
    => AllRolesPopulated

Wit_C11_ThreeNamesPopulated ==
    /\ pc = "returned"
    /\ upload.present
    /\ upload.sheet_names = <<<<"P", "a", "n", "e", "l", " ", "S", "c", "h", "e", "d", "u", "l", "e">>,
                              <<"F", "i", "n", "a", "l", " ", "D", "i", "v", " ", "B", " ">>,
                              <<"F", "I", "N", "A", "L", " ", "D", "I", "V", "-", "A">>>>
    /\ response.success
    /\ response.detected = [div_a |-> <<"F", "I", "N", "A", "L", " ", "D", "I", "V", "-", "A">>,
                            div_b |-> <<"F", "i", "n", "a", "l", " ", "D", "i", "v", " ", "B", " ">>,
                            schedule |-> <<"P", "a", "n", "e", "l", " ", "S", "c", "h", "e", "d", "u", "l", "e">>]

RoleRank(role) == CHOOSE k \in DOMAIN Roles : Roles[k] = role

\* C12: a sheet name populates at most one role, the first of division A,
\* division B and schedule that it has a keyword of.
Thm_C12_EarliestRoleWins ==
    (pc = "returned" /\ upload.present) =>
        \A name \in Range(upload.sheet_names) : \A role \in Range(Roles) :
            response.detected[role] = name =>
                /\ MatchesRole(name, role)
                /\ \A earlier \in Range(Roles) :
                      RoleRank(earlier) < RoleRank(role) => ~MatchesRole(name, earlier)

\* a name with keywords of division B and of the schedule is the division B
\* sheet, and the schedule is taken by another sheet
Wit_C12_EarliestRoleWins ==
    /\ pc = "returned"
    /\ upload.present
    /\ upload.sheet_names = <<<<"S", "c", "h", "e", "d", " ", "D", "i", "v", " ", "B">>, <<"F", "I", "N", "A", "L", " ", "D", "I", "V", "-", "A">>,
                              <<"P", "a", "n", "e", "l", " ", "S", "c", "h", "e", "d", "u", "l", "e">>>>
    /\ response.detected.div_b = <<"S", "c", "h", "e", "d", " ", "D", "i", "v", " ", "B">>
    /\ response.detected.schedule = <<"P", "a", "n", "e", "l", " ", "S", "c", "h", "e", "d", "u", "l", "e">>

----------------------------------------------------------------------------
(* normalize_column_name and normalize_sheet_name                          *)

Separators == SpaceSet \cup {"_", "-"}

\* re.sub(r'[_\-\s]+', ' ', s)
RECURSIVE JoinSeparators(_)
JoinSeparators(s) ==
    IF s = <<>> THEN <<>>
    ELSE IF Head(s) \in Separators
    THEN LET ends == {k \in 2..(Len(s) + 1) : k = Len(s) + 1 \/ s[k] \notin Separators}
             k == CHOOSE e \in ends : \A f \in ends : e <= f
         IN  <<" ">> \o JoinSeparators(SubSeq(s, k, Len(s)))
    ELSE <<Head(s)>> \o JoinSeparators(Tail(s))

\* col_name as lines 66 to 69 clean it
CleanColumnName(column_name) ==
    LET lowered == str_lower(str_strip(column_name))
        joined == JoinSeparators(lowered)
        bare == SelectSeq(joined, LAMBDA c : IsWord(c) \/ IsSpace(c))
    IN  str_strip(CollapseSpaces(bare))

\* the keyword groups of normalize_column_name in the order of the tests,
\* each with the header it returns and the words that suppress it
HeaderGroups ==
    <<
     [canonical |-> <<"G", "r", "o", "u", "p", " ", "N", "o", ".">>,
      patterns |-> {<<"g", "r", "o", "u", "p", " ", "n", "o">>,
                   <<"g", "r", "p", " ", "n", "o">>,
                   <<"g", "r", "o", "u", "p", " ", "n", "u", "m", "b", "e", "r">>,
                   <<"g", "r", "o", "u", "p", " ", "i", "d">>,
                   <<"g", "r", "p", " ", "i", "d">>},
      unless |-> {}],
     [canonical |-> <<"R", "o", "l", "l", " ", "N", "o", ".">>,
      patterns |-> {<<"r", "o", "l", "l", " ", "n", "o">>,
                   <<"r", "o", "l", "l", " ", "n", "u", "m", "b", "e", "r">>,
                   <<"r", "o", "l", "l", "n", "o">>,
                   <<"r", "o", "l", "l">>,
                   <<"s", "t", "u", "d", "e", "n", "t", " ", "i", "d">>},
      unless |-> {}],
     [canonical |-> <<"N", "a", "m", "e", " ", "o", "f", " ", "t", "h", "e", " ", "g", "r", "o", "u", "p", " ", "m", "e", "m", "b", "e", "r">>,
      patterns |-> {<<"n", "a", "m", "e", " ", "o", "f", " ", "t", "h", "e", " ", "g", "r", "o", "u", "p", " ", "m", "e", "m", "b", "e", "r">>,
                   <<"n", "a", "m", "e", " ", "o", "f", " ", "g", "r", "o", "u", "p", " ", "m", "e", "m", "b", "e", "r">>,
                   <<"g", "r", "o", "u", "p", " ", "m", "e", "m", "b", "e", "r", " ", "n", "a", "m", "e">>,
                   <<"n", "a", "m", "e", " ", "o", "f", " ", "m", "e", "m", "b", "e", "r", "s">>,
                   <<"m", "e", "m", "b", "e", "r", " ", "n", "a", "m", "e">>,
                   <<"s", "t", "u", "d", "e", "n", "t", " ", "n", "a", "m", "e">>,
                   <<"n", "a", "m", "e">>},
      unless |-> {<<"g", "u", "i", "d", "e">>, <<"c", "o", "m", "p", "a", "n", "y">>, <<"p", "a", "n", "e", "l">>}],
     [canonical |-> <<"C", "o", "n", "t", "a", "c", "t", " ", "d", "e", "t", "a", "i", "l", "s">>,
      patterns |-> {<<"c", "o", "n", "t", "a", "c", "t", " ", "d", "e", "t", "a", "i", "l", "s">>,
                   <<"c", "o", "n", "t", "a", "c", "t">>,
                   <<"p", "h", "o", "n", "e">>,
                   <<"m", "o", "b", "i", "l", "e">>,
                   <<"e", "m", "a", "i", "l">>,
                   <<"c", "o", "n", "t", "a", "c", "t", " ", "i", "n", "f", "o">>},
      unless |-> {}],
     [canonical |-> <<"P", "r", "o", "j", "e", "c", "t", " ", "D", "o", "m", "a", "i", "n">>,
      patterns |-> {<<"p", "r", "o", "j", "e", "c", "t", " ", "d", "o", "m", "a", "i", "n">>,
                   <<"p", "r", "o", "j", "e", "c", "t", "s", " ", "d", "o", "m", "a", "i", "n">>,
                   <<"d", "o", "m", "a", "i", "n">>,
                   <<"f", "i", "e", "l", "d">>,
                   <<"a", "r", "e", "a">>},
      unless |-> {}],
     [canonical |-> <<"T", "i", "t", "l", "e", " ", "o", "f", " ", "t", "h", "e", " ", "P", "r", "o", "j", "e", "c", "t">>,
      patterns |-> {<<"t", "i", "t", "l", "e", " ", "o", "f", " ", "t", "h", "e", " ", "p", "r", "o", "j", "e", "c", "t">>,
                   <<"p", "r", "o", "j", "e", "c", "t", " ", "t", "i", "t", "l", "e">>,
                   <<"t", "i", "t", "l", "e">>,
                   <<"f", "i", "n", "a", "l", " ", "t", "i", "t", "l", "e">>,
                   <<"p", "r", "o", "j", "e", "c", "t", " ", "n", "a", "m", "e">>,
                   <<"t", "i", "t", "l", "e", " ", "o", "f", " ", "p", "r", "o", "j", "e", "c", "t">>},
      unless |-> {}],
     [canonical |-> <<"N", "a", "m", "e", " ", "o", "f", " ", "t", "h", "e", " ", "s", "p", "o", "n", "s", "o", "r", "e", "d", " ", "c", "o", "m", "p", "a", "n", "y", " ">>,
      patterns |-> {<<"n", "a", "m", "e", " ", "o", "f", " ", "t", "h", "e", " ", "s", "p", "o", "n", "s", "o", "r", "e", "d", " ", "c", "o", "m", "p", "a", "n", "y">>,
                   <<"s", "p", "o", "n", "s", "o", "r", "e", "d", " ", "c", "o", "m", "p", "a", "n", "y">>,
                   <<"s", "p", "o", "n", "s", "o", "r", " ", "c", "o", "m", "p", "a", "n", "y">>,
                   <<"c", "o", "m", "p", "a", "n", "y", " ", "n", "a", "m", "e">>,
                   <<"s", "p", "o", "n", "s", "o", "r", "i", "n", "g", " ", "c", "o", "m", "p", "a", "n", "y">>,
                   <<"n", "a", "m", "e", " ", "o", "f", " ", "s", "p", "o", "n", "s", "o", "r", "e", "d">>},
      unless |-> {}],
     [canonical |-> <<"N", "a", "m", "e", " ", "o", "f", " ", "t", "h", "e", " ", "G", "u", "i", "d", "e">>,
      patterns |-> {<<"n", "a", "m", "e", " ", "o", "f", " ", "t", "h", "e", " ", "g", "u", "i", "d", "e">>,
                   <<"g", "u", "i", "d", "e", " ", "n", "a", "m", "e">>,
                   <<"g", "u", "i", "d", "e">>,
                   <<"s", "u", "p", "e", "r", "v", "i", "s", "o", "r">>,
                   <<"m", "e", "n", "t", "o", "r", " ", "n", "a", "m", "e">>,
                   <<"f", "a", "c", "u", "l", "t", "y", " ", "g", "u", "i", "d", "e">>},
      unless |-> {}],
     [canonical |-> <<"T", "r", "a", "c", "k">>,
      patterns |-> {<<"t", "r", "a", "c", "k">>,
                   <<"p", "a", "n", "e", "l", " ", "n", "o">>,
                   <<"p", "a", "n", "e", "l", " ", "n", "u", "m", "b", "e", "r">>},
      unless |-> {}],
     [canonical |-> <<"N", "a", "m", "e", " ", "o", "f", " ", "t", "h", "e", " ", "P", "a", "n", "e", "l">>,
      patterns |-> {<<"n", "a", "m", "e", " ", "o", "f", " ", "t", "h", "e", " ", "p", "a", "n", "e", "l">>,
                   <<"p", "a", "n", "e", "l", " ", "n", "a", "m", "e">>,
                   <<"p", "a", "n", "e", "l", " ", "m", "e", "m", "b", "e", "r", "s">>,
                   <<"p", "a", "n", "e", "l", " ", "p", "r", "o", "f", "e", "s", "s", "o", "r", "s">>,
                   <<"e", "v", "a", "l", "u", "a", "t", "o", "r", "s">>,
                   <<"p", "a", "n", "e", "l", " ", "f", "a", "c", "u", "l", "t", "y">>},
      unless |-> {}],
     [canonical |-> <<"G", "r", "o", "u", "p", " ", "I", "D">>,
      patterns |-> {<<"g", "r", "o", "u", "p", " ", "i", "d">>,
                   <<"g", "r", "o", "u", "p", "s">>,
                   <<"g", "r", "o", "u", "p", " ", "n", "o", "s">>,
                   <<"a", "s", "s", "i", "g", "n", "e", "d", " ", "g", "r", "o", "u", "p", "s">>},
      unless |-> {}],
     [canonical |-> <<"L", "o", "c", "a", "t", "i", "o", "n">>,
      patterns |-> {<<"l", "o", "c", "a", "t", "i", "o", "n">>,
                   <<"r", "o", "o", "m">>,
                   <<"v", "e", "n", "u", "e">>,
                   <<"p", "l", "a", "c", "e">>},
      unless |-> {}]
    >>

HeaderGroupMatches(col_name, k) ==
    /\ \E pattern \in HeaderGroups[k].patterns : Contains(col_name, pattern)
    /\ \A word \in HeaderGroups[k].unless : ~Contains(col_name, word)

\* the first group whose test passes, or 0
FirstHeaderGroup(col_name) ==
    LET hits == {k \in DOMAIN HeaderGroups : HeaderGroupMatches(col_name, k)}
    IN  IF hits = {} THEN 0 ELSE CHOOSE k \in hits : \A j \in hits : k <= j

normalize_column_name(column_name) ==
    IF column_name = Blank THEN None
    ELSE LET k == FirstHeaderGroup(CleanColumnName(column_name))
         IN  IF k = 0 THEN column_name ELSE HeaderGroups[k].canonical

SheetGroups ==
    <<
     [canonical |-> <<"d", "i", "v", "_", "a">>,
      patterns |-> {<<"F", "I", "N", "A", "L", " ", "D", "I", "V", " ", "A">>,
                   <<"F", "I", "N", "A", "L", " ", "D", "I", "V", "-", "A">>,
                   <<"F", "I", "N", "A", "L", "D", "I", "V", "A">>,
                   <<"F", "I", "N", "A", "L", "_", "D", "I", "V", "_", "A">>,
                   <<"D", "I", "V", " ", "A">>,
                   <<"D", "I", "V", "-", "A">>,
                   <<"D", "I", "V", "A">>,
                   <<"D", "I", "V", "I", "S", "I", "O", "N", " ", "A">>,
                   <<"D", "I", "V", "I", "S", "I", "O", "N", "-", "A">>}],
     [canonical |-> <<"d", "i", "v", "_", "b">>,
      patterns |-> {<<"F", "I", "N", "A", "L", " ", "D", "I", "V", " ", "B">>,
                   <<"F", "I", "N", "A", "L", " ", "D", "I", "V", "-", "B">>,
                   <<"F", "I", "N", "A", "L", "D", "I", "V", "B">>,
                   <<"F", "I", "N", "A", "L", "_", "D", "I", "V", "_", "B">>,
                   <<"D", "I", "V", " ", "B">>,
                   <<"D", "I", "V", "-", "B">>,
                   <<"D", "I", "V", "B">>,
                   <<"D", "I", "V", "I", "S", "I", "O", "N", " ", "B">>,
                   <<"D", "I", "V", "I", "S", "I", "O", "N", "-", "B">>}],
     [canonical |-> <<"s", "c", "h", "e", "d", "u", "l", "e">>,
      patterns |-> {<<"S", "C", "H", "E", "D", "U", "L", "E">>,
                   <<"S", "C", "H", "E", "D">>,
                   <<"P", "A", "N", "E", "L", " ", "S", "C", "H", "E", "D", "U", "L", "E">>,
                   <<"E", "V", "A", "L", "U", "A", "T", "I", "O", "N", " ", "S", "C", "H", "E", "D", "U", "L", "E">>}]
    >>

normalize_sheet_name(name) ==
    IF name = <<>> THEN name
    ELSE LET sheet_upper == str_strip(str_upper(name))
             hits == {k \in DOMAIN SheetGroups :
                         \E keyword \in SheetGroups[k].patterns :
                             Contains(sheet_upper, keyword)}
         IN  IF hits = {} THEN name
             ELSE SheetGroups[CHOOSE k \in hits : \A j \in hits : k <= j].canonical

\* the variables of the import and of the reconciliation are at rest
CoreIdle ==
    /\ row_data = <<>>
    /\ all_groups = <<>>
    /\ workbook = [div_a |-> <<>>, div_b |-> <<>>, sched |-> <<>>]
    /\ projects = {}
    /\ members = {}
    /\ panel_assignments = {}
    /\ prior_store = EmptyStore
    /\ group_id = None
    /\ pc = "idle"
    /\ runs = 0
    /\ first_snapshot = EmptyStore
    /\ upload = <<>>
    /\ admin_file = <<>>
    /\ admin_metadata = <<>>
    /\ response = <<>>

HeaderKeywords == UNION {HeaderGroups[k].patterns : k \in DOMAIN HeaderGroups}
CanonicalHeaders == {HeaderGroups[k].canonical : k \in DOMAIN HeaderGroups}
CanonicalSheetNames == {SheetGroups[k].canonical : k \in DOMAIN SheetGroups}

\* the headers handed to the normalizer: the keywords as listed, in upper
\* case and with underscores, the canonical headers, and headers of no group
HeaderInputs ==
    HeaderKeywords
    \cup {str_upper(keyword) : keyword \in HeaderKeywords}
    \cup {str_replace(keyword, " ", "_") : keyword \in HeaderKeywords}
    \cup CanonicalHeaders
    \cup {Blank, <<"S", "r", ".", " ", "N", "o">>, <<"R", "e", "m", "a", "r", "k", "s">>, <<" ", "F", "i", "n", "a", "l", "-", "T", "i", "t", "l", "e", ".", " ">>}

SheetInputs == CanonicalSheetNames \cup SheetNamePool \cup {<<>>}

CallNormalizeColumn ==
    /\ fpc = "column"
    /\ normalized' = normalize_column_name(name_in)
    /\ fpc' = "column_done"
    /\ UNCHANGED <<row_data, all_groups, workbook, projects, members, panel_assignments,
                   group_id, pc, runs, first_snapshot, prior_store, upload,
                   admin_file, admin_metadata, response, name_in,
                   editVars, raceVars, sqlVars, writerVars, authVars>>

CallNormalizeSheet ==
    /\ fpc = "sheet"
    /\ normalized' = normalize_sheet_name(name_in)
    /\ fpc' = "sheet_done"
    /\ UNCHANGED <<row_data, all_groups, workbook, projects, members, panel_assignments,
                   group_id, pc, runs, first_snapshot, prior_store, upload,
                   admin_file, admin_metadata, response, name_in,
                   editVars, raceVars, sqlVars, writerVars, authVars>>

InitNormalize ==
    /\ CoreIdle
    /\ \/ fpc = "column" /\ name_in \in HeaderInputs
       \/ fpc = "sheet" /\ name_in \in SheetInputs
    /\ normalized = <<>>
    /\ EditIdle /\ RaceIdle /\ SqlIdle /\ WriterIdle /\ AuthIdle

NextNormalize == CallNormalizeColumn \/ CallNormalizeSheet

SpecNormalize == InitNormalize /\ [][NextNormalize]_vars

\* C13: a canonical header is returned unchanged by the header normalizer,
\* and a canonical sheet-role name by the sheet-name normalizer.
Claim_C13_CanonicalFixedPoints ==
    /\ (fpc = "column_done" /\ name_in \in CanonicalHeaders) => normalized = name_in
    /\ (fpc = "sheet_done" /\ name_in \in CanonicalSheetNames) => normalized = name_in

\* C14: a keyword of a header group is normalized to the header of the group
\* that lists it (of one of them, for the keyword that two groups list).
Claim_C14_KeywordToItsHeader ==
    (fpc = "column_done" /\ name_in \in HeaderKeywords) =>
        \E k \in DOMAIN HeaderGroups :
            /\ name_in \in HeaderGroups[k].patterns
            /\ normalized = HeaderGroups[k].canonical

----------------------------------------------------------------------------
(* Properties of project insertion                                         *)

\* the header rows of the workbook as <<division, row number>>, and their
\* order in the run: the sheet of division A first, each sheet top down
HeaderRows ==
    {<<d, i>> \in Divisions \X (1..MaxRosterRows) :
        i \in DOMAIN SheetOf(d) /\ NonEmpty(SheetOf(d)[i].group_no)}

WalkedBefore(h1, h2) ==
    \/ h1[1] = "A" /\ h2[1] = "B"
    \/ h1[1] = h2[1] /\ h1[2] < h2[2]

HeaderValue(h) == str_strip(SheetOf(h[1])[h[2]].group_no)

\* C15: the project of a group-header value carries the division, domain,
\* title, sponsor and guide of the first row of the upload with that value;
\* the later rows with the value change none of them.
Thm_C15_FirstHeaderRowKept ==
    pc = "done" =>
        \A h \in HeaderRows :
            (\A other \in HeaderRows :
                HeaderValue(other) = HeaderValue(h) => ~WalkedBefore(other, h))
            => LET row == SheetOf(h[1])[h[2]]
               IN  /\ HasProject(projects, HeaderValue(h))
                   /\ \A p \in projects :
                       p.group_id = HeaderValue(h) =>
                           /\ p.division = h[1]
                           /\ p.project_domain = CellText(row.project_domain, MaxDomainLen)
                           /\ p.project_title = CellText(row.project_title, MaxTitleLen)
                           /\ p.sponsor_company = CellText(row.sponsor_company, MaxSponsorLen)
                           /\ p.guide_name = CellText(row.guide_name, MaxGuideLen)

\* BIA-01 is named by two rows of the sheet of division A and by one of the
\* sheet of division B; the project is that of the first row
Wit_C15_FirstHeaderRowKept ==
    /\ pc = "done"
    /\ workbook.div_a = <<RowHeaderCanonical, RowHeaderOtherDivision>>
    /\ workbook.div_b = <<RowHeaderOtherDivision>>
    /\ \E p \in projects :
          /\ p.group_id = <<"B", "I", "A", "-", "0", "1">>
          /\ p.division = "A"
          /\ p.guide_name = <<"P", "r", "o", "f", ".", " ", "R", "a", "o">>
          /\ p.project_title = <<"T", "2">>

----------------------------------------------------------------------------
(* Rows whose processing raises                                            *)

WithFault(row, place) ==
    [f \in DOMAIN row \cup {"fault"} |-> IF f = "fault" THEN place ELSE row[f]]

\* a header row with a member, for BIA-03
RowHeaderThird ==
    [group_no |-> <<"B", "I", "A", "-", "0", "3">>, roll_no |-> <<"4", "1">>,
     student_name |-> <<"R", "a", "v", "i">>, contact_details |-> Blank,
     project_domain |-> Blank, project_title |-> <<"T", "5">>,
     sponsor_company |-> Blank, guide_name |-> <<"Z", " ", "W", " ", "R", "o", "y">>]

FaultRosterRows ==
    {RowHeaderCanonical, RowMember22,
     WithFault(RowHeaderThird, "row"), WithFault(RowHeaderThird, "project"),
     WithFault(RowMember22, "member")}

FaultSchedRows ==
    {SchedThreeNames, SchedTextTrack, SchedBlankPanel, WithFault(SchedSingleName, "assign")}

FaultWorkbooks ==
    {[div_a |-> a, div_b |-> b, sched |-> sc] :
        a \in SeqsUpTo(FaultRosterRows, MaxRosterRows),
        b \in {<<>>, <<WithFault(RowMemberB, "row"), RowHeaderB>>},
        sc \in SeqsUpTo(FaultSchedRows, MaxSchedRows)}

InitFaults ==
    /\ workbook \in FaultWorkbooks
    /\ \E store \in PriorStores :
          /\ projects = store.projects
          /\ members = store.members
          /\ panel_assignments = store.panel_assignments
          /\ prior_store = store
    /\ group_id = None
    /\ pc = "start"
    /\ runs = 0
    /\ first_snapshot = EmptyStore
    /\ row_data = <<>>
    /\ all_groups = <<>>
    /\ fpc = "idle"
    /\ upload = <<>>
    /\ admin_file = <<>>
    /\ admin_metadata = <<>>
    /\ response = <<>>
    /\ LaterIdle

SpecFaults == InitFaults /\ [][Next]_vars

\* the processing of roster row i of sheet d, or of schedule row i, raised
RosterRowFailed(d, i) == "fault" \in DOMAIN SheetOf(d)[i]

SchedRowFailed(i) ==
    LET row == workbook.sched[i]
    IN  (row.track # Blank /\ ~TrackUsable(row)) \/ "fault" \in DOMAIN row

\* the rows at or above row i of sheet d that set group_id
GroupSetUpTo(d, i) ==
    {j \in HeaderRowsUpTo(d, i) : ~Raises(SheetOf(d)[j], "row")}

\* C16: the rows below a row whose processing failed are processed all the
\* same: the project of a later header row, the member of a later member
\* row and the panel assignments of a later schedule row are stored, and the
\* run comes to its end.
Thm_C16_LaterRowsProcessed ==
    pc = "done" =>
        /\ \A d \in Divisions : \A j \in DOMAIN SheetOf(d) :
              ((\E i \in 1..(j - 1) : RosterRowFailed(d, i)) /\ ~RosterRowFailed(d, j)) =>
                  LET row == SheetOf(d)[j]
                  IN  /\ NonEmpty(row.group_no) =>
                            HasProject(projects, str_strip(row.group_no))
                      /\ (IsMemberRow(d, j) /\ GroupSetUpTo(d, j) # {}) =>
                            HasMember(members,
                                      str_strip(SheetOf(d)[Max(GroupSetUpTo(d, j))].group_no),
                                      str_strip(row.roll_no))
        /\ \A j \in DOMAIN workbook.sched :
              ((\E i \in 1..(j - 1) : SchedRowFailed(i))
                  /\ ~SchedRowFailed(j) /\ workbook.sched[j].track # Blank) =>
                  \A g \in GroupsOfRow(j) : HasPanel(panel_assignments, g)

\* a roster row and a schedule row fail, and the rows below them are stored
Wit_C16_LaterRowsProcessed ==
    /\ pc = "done"
    /\ workbook.div_a = <<WithFault(RowHeaderThird, "row"), RowHeaderCanonical>>
    /\ workbook.div_b = <<WithFault(RowMemberB, "row"), RowHeaderB>>
    /\ workbook.sched = <<SchedTextTrack, SchedThreeNames>>
    /\ HasProject(projects, <<"B", "I", "A", "-", "0", "1">>)
    /\ ~HasProject(projects, <<"B", "I", "A", "-", "0", "3">>)
    /\ HasMember(members, <<"B", "I", "B", "-", "0", "1">>, <<"3", "1">>)
    /\ HasPanel(panel_assignments, <<"B", "I", "B", "-", "0", "1">>)

----------------------------------------------------------------------------
(* Cell edits: POST /api/update-cell-general                               *)

\* UNIQUE KEY unique_cell (sheet_name, row_num, col_num)
SameCell(a, b) ==
    a.sheet_name = b.sheet_name /\ a.row_num = b.row_num /\ a.col_num = b.col_num

InsertIgnoreCellUpdate(CU, entry) ==
    IF \E a \in CU : SameCell(a, entry) THEN CU ELSE CU \cup {entry}

\* INSERT INTO cell_updates ... ON DUPLICATE KEY UPDATE old_value = VALUES(old_value),
\* new_value = VALUES(new_value)
UpsertCellUpdate(CU, entry) ==
    IF \E a \in CU : SameCell(a, entry)
    THEN {IF SameCell(a, entry)
          THEN [a EXCEPT !.old_value = entry.old_value, !.new_value = entry.new_value]
          ELSE a : a \in CU}
    ELSE CU \cup {entry}

\* update_division_field: the stores the statement can leave. Only column 0
\* runs a statement MySQL accepts: the project at offset row - 1 of the
\* division, in an order the statement leaves open, takes the new group id
\* unless another project has it (duplicate key, logged). The statements of
\* the other columns end in LIMIT 1 OFFSET, which UPDATE does not take: they
\* raise and are logged.
update_division_field(st, division, row, col, new_value) ==
    IF row < 1 \/ col # 0 THEN {st}
    ELSE LET in_division == {p \in st.projects : p.division = division}
         IN  IF Cardinality(in_division) < row THEN {st}
             ELSE {IF HasProject(st.projects \ {p}, new_value) THEN st
                   ELSE [st EXCEPT !.projects =
                            (st.projects \ {p}) \cup {[p EXCEPT !.group_id = new_value]}] :
                      p \in in_division}

\* update_schedule_field: column 0 moves every assignment of the track at
\* offset row - 1 (ORDER BY track) to the new track; a new value that is no
\* number is refused by the INT column; the statements of the other columns
\* raise as above
update_schedule_field(st, row, col, new_value) ==
    IF row < 1 \/ col # 0 \/ ~IsAllDigits(new_value) THEN {st}
    ELSE LET PA == st.panel_assignments
             old_track == {a.track : a \in
                              {a \in PA :
                                  /\ Cardinality({b \in PA : b.track < a.track}) < row
                                  /\ row <= Cardinality({b \in PA : b.track <= a.track})}}
         IN  {[st EXCEPT !.panel_assignments =
                  {IF a.track \in old_track THEN [a EXCEPT !.track = int_of(new_value)]
                   ELSE a : a \in PA}]}

\* the role update_specific_database_field gives a sheet name: the first of
\* the three keyword lists with a keyword inside the upper-cased name
EditRole(sheet_name) ==
    LET sheet_upper == str_upper(sheet_name)
        any(keywords) == \E keyword \in keywords : Contains(sheet_upper, keyword)
    IN  IF any({<<"D", "I", "V", " ", "A">>, <<"D", "I", "V", "A">>, <<"D", "I", "V", "I", "S", "I", "O", "N", " ", "A">>})
        THEN "div_a"
        ELSE IF any({<<"D", "I", "V", " ", "B">>, <<"D", "I", "V", "B">>, <<"D", "I", "V", "I", "S", "I", "O", "N", " ", "B">>})
        THEN "div_b"
        ELSE IF any({<<"S", "C", "H", "E", "D", "U", "L", "E">>, <<"S", "C", "H", "E", "D">>})
        THEN "schedule"
        ELSE "none"

update_specific_database_field(st, sheet_name, row, col, new_value) ==
    LET role == EditRole(sheet_name)
    IN  IF role = "div_a" THEN update_division_field(st, "A", row, col, new_value)
        ELSE IF role = "div_b" THEN update_division_field(st, "B", row, col, new_value)
        ELSE IF role = "schedule" THEN update_schedule_field(st, row, col, new_value)
        ELSE {st}

\* for ws_name in wb.sheetnames: if ws_name.upper() == sheet_name.upper()
WorksheetActive(sheetnames, sheet_name) == IF sheetnames = <<>> THEN 0 ELSE 1

Worksheet(sheetnames, sheet_name) ==
    IF \E k \in DOMAIN sheetnames : str_upper(sheetnames[k]) = str_upper(sheet_name)
    THEN CHOOSE k \in DOMAIN sheetnames :
            /\ str_upper(sheetnames[k]) = str_upper(sheet_name)
            /\ \A j \in 1..(k - 1) : str_upper(sheetnames[j]) # str_upper(sheet_name)
    ELSE 0

\* update_admin_file_cell: ws.cell(row=row + 1, column=col + 1, value=new_value)
\* sets the value of the cell and leaves its style; wb.save writes the
\* workbook back
update_admin_file_cell(file, sheet_name, row, col, new_value) ==
    IF ~file.exists THEN file
    ELSE LET ws == Worksheet(file.sheet_names, sheet_name)
         IN  IF ws = 0 THEN file
             ELSE [file EXCEPT !.cells[<<ws, row + 1, col + 1>>].value = new_value]

Tables == [projects |-> projects, members |-> members,
           panel_assignments |-> panel_assignments]

MaxEdits == 2

\* the requests: a division sheet named in another case than the worksheet,
\* the schedule sheet, and a sheet the workbook does not have
EditRequests ==
    [sheet_name : {<<"D", "I", "V", " ", "A">>, <<"S", "c", "h", "e", "d">>, <<"N", "o", "p", "e">>},
     row : 0..1, col : 0..1,
     value : {<<"7">>, <<"N", "e", "w">>},
     old_value : {<<>>, <<"O", "l", "d">>}]

\* the stored workbook of the edits: two worksheets of four cells, each cell
\* with a value and a style
GridCells == {<<ws, r, c>> : ws \in 1..2, r \in 1..2, c \in 1..2}

EditFile ==
    [exists |-> TRUE,
     sheet_names |-> <<<<"D", "i", "v", " ", "A">>, <<"S", "c", "h", "e", "d">>>>,
     cells |-> [cell \in GridCells |->
                  [value |-> IF cell[2] = 1 THEN <<"H", "e", "a", "d">> ELSE <<"O", "l", "d">>,
                   style |-> [font |-> IF cell[2] = 1 THEN "bold" ELSE "regular",
                              alignment |-> IF cell[3] = 1 THEN "left" ELSE "center",
                              border |-> "thin",
                              fill |-> IF cell[1] = 1 THEN "none" ELSE "yellow",
                              number_format |-> "General"]]]]

\* the request is answered with success: the log entry and the relational
\* update are committed, then the stored workbook is written; a failure of
\* the relational update or of the workbook write is logged only. The
\* request is served between reconciliation runs.
UpdateCell(requests) ==
    /\ Len(edit_log) < MaxEdits
    /\ \E data \in requests, file_written \in BOOLEAN :
          \E st \in update_specific_database_field(
                        Tables, data.sheet_name, data.row, data.col, data.value) :
             /\ cell_updates' = UpsertCellUpdate(
                    cell_updates,
                    [sheet_name |-> data.sheet_name, row_num |-> data.row,
                     col_num |-> data.col, old_value |-> data.old_value,
                     new_value |-> data.value])
             /\ projects' = st.projects
             /\ members' = st.members
             /\ panel_assignments' = st.panel_assignments
             /\ admin_file' = IF file_written
                              THEN update_admin_file_cell(admin_file, data.sheet_name,
                                                          data.row, data.col, data.value)
                              ELSE admin_file
             /\ edit_log' = Append(edit_log,
                    [data |-> data,
                     relational |-> (st # Tables),
                     file |-> (admin_file' # admin_file)])
             /\ response' = [success |-> TRUE, status |-> 200]
    /\ UNCHANGED <<row_data, all_groups, fpc, workbook, group_id, pc, runs,
                   first_snapshot, prior_store, upload, admin_metadata,
                   normVars, raceVars, sqlVars, writerVars, authVars>>

UpdateCellGeneral ==
    /\ pc \in {"edit", "done"}
    /\ UpdateCell(EditRequests)

\* the connection or the INSERT raises: nothing is committed, the request is
\* answered with the error
UpdateCellGeneralError ==
    /\ pc = "edit"
    /\ response' = [success |-> FALSE, status |-> 500]
    /\ UNCHANGED <<row_data, all_groups, fpc, workbook, projects, members,
                   panel_assignments, group_id, pc, runs, first_snapshot,
                   prior_store, upload, admin_file, admin_metadata,
                   normVars, editVars, raceVars, sqlVars, writerVars, authVars>>

InitEdit ==
    /\ row_data = <<>>
    /\ all_groups = <<>>
    /\ fpc = "idle"
    /\ workbook = [div_a |-> <<>>, div_b |-> <<>>, sched |-> <<>>]
    /\ \E st \in {StaleStore, EmptyStore} :
          /\ projects = st.projects
          /\ members = st.members
          /\ panel_assignments = st.panel_assignments
          /\ prior_store = st
    /\ group_id = None
    /\ pc = "edit"
    /\ runs = 0
    /\ first_snapshot = EmptyStore
    /\ upload = <<>>
    /\ admin_file \in {NoFile, EditFile}
    /\ admin_metadata = <<>>
    /\ response = <<>>
    /\ LaterIdle

NextEdit == UpdateCellGeneral \/ UpdateCellGeneralError

SpecEdit == InitEdit /\ [][NextEdit]_vars

\* the last edit of the log that addresses the cell of edit i
IsLastEditOfCell(i) ==
    \A j \in (i + 1)..Len(edit_log) :
       ~(/\ edit_log[j].data.sheet_name = edit_log[i].data.sheet_name
         /\ edit_log[j].data.row = edit_log[i].data.row
         /\ edit_log[j].data.col = edit_log[i].data.col)

\* C17: after any sequence of accepted cell edits, cell_updates holds exactly
\* one entry per edited (sheet, row, column), with the old and the new value
\* of the last edit of that cell, whether or not the relational update and
\* the workbook write of that edit changed anything
Thm_C17_OneEntryPerEditedCell ==
    cell_updates =
        {[sheet_name |-> edit_log[i].data.sheet_name,
          row_num |-> edit_log[i].data.row,
          col_num |-> edit_log[i].data.col,
          old_value |-> edit_log[i].data.old_value,
          new_value |-> edit_log[i].data.value] :
            i \in {i \in DOMAIN edit_log : IsLastEditOfCell(i)}}

\* a cell edited twice with different values; the first edit reached the
\* workbook and the relational store, the second reached neither, and the
\* entry of the cell carries the values of the second
Wit_C17_OneEntryPerEditedCell ==
    /\ Len(edit_log) = 2
    /\ SameCell([sheet_name |-> edit_log[1].data.sheet_name,
                 row_num |-> edit_log[1].data.row, col_num |-> edit_log[1].data.col],
                [sheet_name |-> edit_log[2].data.sheet_name,
                 row_num |-> edit_log[2].data.row, col_num |-> edit_log[2].data.col])
    /\ edit_log[1].data.value # edit_log[2].data.value
    /\ edit_log[1].data.old_value # edit_log[2].data.old_value
    /\ edit_log[1].file /\ edit_log[1].relational
    /\ ~edit_log[2].file /\ ~edit_log[2].relational
    /\ \E a \in cell_updates :
          /\ a.new_value = edit_log[2].data.value
          /\ a.old_value = edit_log[2].data.old_value
    /\ Cardinality(cell_updates) = 1

\* the cell a request addresses in a workbook: none when no worksheet has
\* the name in any case
AddressedCells(file, data) ==
    {cell \in DOMAIN file.cells :
        /\ str_upper(file.sheet_names[cell[1]]) = str_upper(data.sheet_name)
        /\ cell[2] = data.row + 1
        /\ cell[3] = data.col + 1}

\* C18: a cell edit changes, in the stored workbook, at most the value of the
\* addressed cell of the worksheet whose name equals the target in any case:
\* the font, alignment, border, fill and number format of that cell, and the
\* value and style of every other cell of every sheet, stay as they were
Thm_C18_OnlyAddressedValueChanges ==
    [][edit_log' # edit_log =>
          LET data == edit_log'[Len(edit_log')].data
          IN  /\ admin_file'.exists = admin_file.exists
              /\ admin_file.exists =>
                    /\ admin_file'.sheet_names = admin_file.sheet_names
                    /\ DOMAIN admin_file'.cells = DOMAIN admin_file.cells
                    /\ \A cell \in DOMAIN admin_file.cells :
                          /\ admin_file'.cells[cell].style = admin_file.cells[cell].style
                          /\ \/ admin_file'.cells[cell].value = admin_file.cells[cell].value
                             \/ /\ cell \in AddressedCells(admin_file, data)
                                /\ admin_file'.cells[cell].value = data.value]_vars

\* an edit named "DIV A" has put its value into a cell of worksheet "Div A"
\* that is not in the first row or column, and an edit has reached the
\* second worksheet
Wit_C18_OnlyAddressedValueChanges ==
    /\ Len(edit_log) = 2
    /\ admin_file.exists
    /\ edit_log[1].file /\ edit_log[2].file
    /\ edit_log[1].data.sheet_name = <<"D", "I", "V", " ", "A">>
    /\ edit_log[1].data.row = 1 /\ edit_log[1].data.col = 1
    /\ admin_file.cells[<<1, 2, 2>>].value = edit_log[1].data.value
    /\ admin_file.cells[<<1, 2, 2>>].style = EditFile.cells[<<1, 2, 2>>].style
    /\ edit_log[2].data.sheet_name = <<"S", "c", "h", "e", "d">>
    /\ admin_file.cells[<<2, edit_log[2].data.row + 1, edit_log[2].data.col + 1>>].value
          = edit_log[2].data.value

----------------------------------------------------------------------------
(* Identifiers placed into SQL text                                        *)

\* the values a review number arrives as: int(...) of a URL part or a query
\* argument, and the numbers, booleans, strings and null of a JSON body
PyInt(n) == [type |-> "int", value |-> n, text |-> <<>>]
PyBool(b) == [type |-> "bool", value |-> IF b THEN 1 ELSE 0, text |-> <<>>]
PyStr(s) == [type |-> "str", value |-> 0, text |-> s]
PyNone == [type |-> "NoneType", value |-> 0, text |-> <<>>]

\* isinstance(review_number, int) and 0 <= review_number <= 5: bool is a
\* subclass of int, True is 1 and False is 0
validate_review_number(review_number) ==
    /\ review_number.type \in {"int", "bool"}
    /\ 0 <= review_number.value
    /\ review_number.value <= 5

\* f"{review_number}"
format(review_number) ==
    IF review_number.type = "bool"
    THEN IF review_number.value = 1 THEN <<"T", "r", "u", "e">> ELSE <<"F", "a", "l", "s", "e">>
    ELSE str_of_int(review_number.value)

\* re.match(r'^[A-Za-z0-9\-]{1,20}$', group_id)
validate_group_id(g) ==
    /\ Len(g) \in 1..20
    /\ \A i \in DOMAIN g : IsUpper(g[i]) \/ IsLower(g[i]) \/ IsDigit(g[i]) \/ g[i] = "-"

AllowedTableTypes == {<<"m", "a", "r", "k", "s">>, <<"g", "r", "o", "u", "p", "_", "r", "e", "s", "p", "o", "n", "s", "e", "s">>, <<"p", "e", "r", "f", "o", "r", "m", "a", "n", "c", "e", "_", "c", "r", "i", "t", "e", "r", "i", "a">>, <<"q", "u", "e", "s", "t", "i", "o", "n", "s">>}

AllowedColumnTypes == {<<"a", "t", "t", "e", "n", "d", "a", "n", "c", "e">>}

sanitize_table_name(review_number, table_type) ==
    IF ~validate_review_number(review_number) THEN None
    ELSE IF table_type \notin AllowedTableTypes THEN None
    ELSE <<"r", "e", "v", "i", "e", "w">> \o format(review_number) \o <<"_">> \o table_type

sanitize_column_name(review_number, column_type) ==
    IF ~validate_review_number(review_number) THEN None
    ELSE IF column_type \notin AllowedColumnTypes THEN None
    ELSE <<"r", "e", "v", "i", "e", "w">> \o format(review_number) \o <<"_">> \o column_type

\* column_mappings and schedule_mappings, indexed by col + 1
column_mappings ==
    <<<<"g", "r", "o", "u", "p", "_", "i", "d">>, <<"r", "o", "l", "l", "_", "n", "o">>, <<"s", "t", "u", "d", "e", "n", "t", "_", "n", "a", "m", "e">>, <<"c", "o", "n", "t", "a", "c", "t", "_", "d", "e", "t", "a", "i", "l", "s">>,
      <<"p", "r", "o", "j", "e", "c", "t", "_", "d", "o", "m", "a", "i", "n">>, <<"p", "r", "o", "j", "e", "c", "t", "_", "t", "i", "t", "l", "e">>, <<"s", "p", "o", "n", "s", "o", "r", "_", "c", "o", "m", "p", "a", "n", "y">>, <<"g", "u", "i", "d", "e", "_", "n", "a", "m", "e">>>>

schedule_mappings == <<<<"t", "r", "a", "c", "k">>, <<"p", "a", "n", "e", "l", "_", "p", "r", "o", "f", "e", "s", "s", "o", "r", "s">>, <<"g", "r", "o", "u", "p", "_", "i", "d", "s">>, <<"l", "o", "c", "a", "t", "i", "o", "n">>>>

\* the tables review0_group_responses .. review5_group_responses with their
\* columns; INFORMATION_SCHEMA has no column for any other table name
ReviewTables == {<<"r", "e", "v", "i", "e", "w">> \o str_of_int(n) \o <<"_">> \o table_type :
                    n \in 0..5, table_type \in AllowedTableTypes}

ResponseColumns == {<<"g", "r", "o", "u", "p", "_", "i", "d">>, <<"s", "u", "b", "m", "i", "s", "s", "i", "o", "n", "_", "d", "a", "t", "e">>, <<"c", "o", "m", "m", "e", "n", "t", "s">>, <<"q", "1", "_", "1">>, <<"q", "2">>}

valid_columns(table_name) ==
    IF table_name \in ReviewTables THEN ResponseColumns ELSE {}

MaxStatements == 2

MaxResponses == 2

IntReviewNumbers == {PyInt(n) : n \in (0 - 1)..6}

\* the review numbers of a JSON body
ReviewNumbers ==
    IntReviewNumbers \cup {PyBool(TRUE), PyBool(FALSE), PyStr(<<"1">>), PyNone}

RequestGroupIds == {<<"B", "I", "A", "-", "0", "1">>, <<"B", "I", "B", "-", "0", "9">>, <<"B", "I", "A", " ", "0", "1">>}

ResponsePool ==
    {[question_code |-> <<"q", "1", ".", "1">>, response_value |-> PyStr(<<"Y", "e", "s">>)],
     [question_code |-> <<"q", "2">>, response_value |-> PyNone],
     [question_code |-> <<"q", "9">>, response_value |-> PyInt(1)],
     [question_code |-> <<"c", "o", "m", "m", "e", "n", "t", "s">>, response_value |-> PyInt(1)]}

\* the columns save_review_responses puts into the INSERT, in order
RECURSIVE ResponseColumnsFrom(_, _, _)
ResponseColumnsFrom(responses, k, valid) ==
    IF k > Len(responses) THEN <<>>
    ELSE LET col_name == str_replace(responses[k].question_code, ".", "_")
             rest == ResponseColumnsFrom(responses, k + 1, valid)
         IN  IF col_name \notin valid THEN rest
             ELSE IF responses[k].response_value.type \in {"int", "bool", "float", "str"}
             THEN <<col_name>> \o rest
             ELSE rest

Executed(statement) ==
    /\ Cardinality(sql_log) < MaxStatements
    /\ sql_log' = sql_log \cup {statement}

SqlFrame ==
    UNCHANGED <<row_data, all_groups, fpc, workbook, projects, members,
                panel_assignments, group_id, pc, runs, first_snapshot,
                prior_store, upload, admin_file, admin_metadata,
                normVars, editVars, raceVars, writerVars, authVars>>

\* save_review_responses(review_number, group_id, date, comments, responses):
\* its callers pass an int
SaveReviewResponses ==
    /\ pc = "sql"
    /\ \E review_number \in IntReviewNumbers, g \in RequestGroupIds,
          responses \in SeqsUpTo(ResponsePool, MaxResponses) :
          LET table_name == sanitize_table_name(review_number, <<"g", "r", "o", "u", "p", "_", "r", "e", "s", "p", "o", "n", "s", "e", "s">>)
          IN  IF \/ ~validate_review_number(review_number)
                 \/ ~validate_group_id(g)
                 \/ table_name = None
              THEN /\ response' = [success |-> FALSE, status |-> 0]
                   /\ UNCHANGED sql_log
              ELSE /\ Executed([by |-> "save_review_responses",
                                tables |-> {table_name},
                                target |-> table_name,
                                columns |-> Range(ResponseColumnsFrom(
                                               responses, 1, valid_columns(table_name)))])
                   /\ response' = [success |-> table_name \in ReviewTables, status |-> 0]
    /\ SqlFrame

\* fetch_members(group_id, review_number), called with int(review_number)
FetchMembers ==
    /\ pc = "sql"
    /\ \E review_number \in IntReviewNumbers, g \in RequestGroupIds :
          LET attendance_col == sanitize_column_name(review_number, <<"a", "t", "t", "e", "n", "d", "a", "n", "c", "e">>)
          IN  IF \/ ~validate_review_number(review_number)
                 \/ ~validate_group_id(g)
                 \/ attendance_col = None
              THEN /\ response' = [success |-> FALSE, status |-> 0]
                   /\ UNCHANGED sql_log
              ELSE /\ Executed([by |-> "fetch_members", tables |-> {},
                                target |-> <<"m", "e", "m", "b", "e", "r", "s">>, columns |-> {attendance_col}])
                   /\ response' = [success |-> TRUE, status |-> 0]
    /\ SqlFrame

\* one entry of POST /pdf/batch-generate: the review number of the JSON body
\* goes through validate_review_number into check_pdf_data_availability,
\* which counts the responses and the marks of a group that has a project
\* and members
CheckPdfDataAvailability ==
    /\ pc = "sql"
    /\ \E review_number \in ReviewNumbers, g \in RequestGroupIds :
          LET responses_table == sanitize_table_name(review_number, <<"g", "r", "o", "u", "p", "_", "r", "e", "s", "p", "o", "n", "s", "e", "s">>)
              marks_table == sanitize_table_name(review_number, <<"m", "a", "r", "k", "s">>)
          IN  IF \/ ~validate_review_number(review_number)
                 \/ ~validate_group_id(g)
                 \/ ~HasProject(projects, g)
                 \/ ~\E m \in members : m.group_id = g
                 \/ responses_table = None
              THEN /\ response' = [success |-> FALSE, status |-> 0]
                   /\ UNCHANGED sql_log
              ELSE /\ Executed([by |-> "check_pdf_data_availability",
                                tables |-> {responses_table}
                                           \cup (IF responses_table \in ReviewTables
                                                 THEN {marks_table} ELSE {}),
                                target |-> responses_table, columns |-> {}])
                   /\ response' = [success |-> responses_table \in ReviewTables,
                                   status |-> 0]
    /\ SqlFrame

\* update_division_field and update_schedule_field: the statements of the
\* columns other than the first take their column from the mapping
UpdateFieldStatement ==
    /\ pc = "sql"
    /\ \E sheet \in {"division", "schedule"}, row \in 0..1, col \in (0 - 1)..8 :
          LET mappings == IF sheet = "division" THEN column_mappings
                          ELSE schedule_mappings
              interpolating == IF sheet = "division" THEN 2..8 ELSE {2, 4}
          IN  IF row < 1 \/ (col + 1) \notin interpolating
              THEN UNCHANGED sql_log
              ELSE Executed([by |-> "update_" \o sheet \o "_field", tables |-> {},
                             target |-> IF sheet = "schedule" THEN <<"p", "a", "n", "e", "l", "_", "a", "s", "s", "i", "g", "n", "m", "e", "n", "t", "s">>
                                        ELSE IF col <= 3 THEN <<"m", "e", "m", "b", "e", "r", "s">> ELSE <<"p", "r", "o", "j", "e", "c", "t", "s">>,
                             columns |-> {mappings[col + 1]}])
    /\ response' = [success |-> TRUE, status |-> 0]
    /\ SqlFrame

InitSql ==
    /\ row_data = <<>>
    /\ all_groups = <<>>
    /\ fpc = "idle"
    /\ workbook = [div_a |-> <<>>, div_b |-> <<>>, sched |-> <<>>]
    /\ \E st \in {StaleStore, EmptyStore} :
          /\ projects = st.projects
          /\ members = st.members
          /\ panel_assignments = st.panel_assignments
          /\ prior_store = st
    /\ group_id = None
    /\ pc = "sql"
    /\ runs = 0
    /\ first_snapshot = EmptyStore
    /\ upload = <<>>
    /\ admin_file = <<>>
    /\ admin_metadata = <<>>
    /\ response = <<>>
    /\ NormIdle /\ EditIdle /\ RaceIdle /\ WriterIdle /\ AuthIdle
    /\ sql_log = {}

NextSql ==
    \/ SaveReviewResponses
    \/ FetchMembers
    \/ CheckPdfDataAvailability
    \/ UpdateFieldStatement

SpecSql == InitSql /\ [][NextSql]_vars

\* the validated identifiers: review0..review5 with a whitelisted type, an
\* entry of the position tables, or an existing column of the target
WhitelistedTables == ReviewTables

WhitelistedColumns ==
    {<<"r", "e", "v", "i", "e", "w">> \o str_of_int(n) \o <<"_">> \o column_type :
        n \in 0..5, column_type \in AllowedColumnTypes}
    \cup Range(column_mappings) \cup Range(schedule_mappings)

\* C19: every table or column identifier of an executed statement is built
\* by the sanitizers from a review number in 0..5 and a whitelisted type, or
\* taken from the position tables, or an existing column of the target table
Claim_C19_IdentifiersValidated ==
    \A statement \in sql_log :
       /\ statement.tables \subseteq WhitelistedTables
       /\ statement.columns \subseteq
             WhitelistedColumns \cup valid_columns(statement.target)

----------------------------------------------------------------------------
(* Two uploads at the same time                                            *)

Requests == {1, 2}

\* the uploads import_excel accepts: every role has a sheet
AcceptedUploads ==
    {u \in Uploads \ {[present |-> FALSE]} :
        MissingSheets(detect_and_normalize_sheets_robust(u.sheet_names)) = <<>>}

\* with open(ADMIN_FILE_PATH, 'wb') as f: f.write(file_content)
WriteWorkbook(p) ==
    /\ pc = "uploads"
    /\ upc[p] = "workbook"
    /\ admin_file' = StoredFile(upload[p])
    /\ upc' = [upc EXCEPT ![p] = "metadata"]
    /\ UNCHANGED <<row_data, all_groups, fpc, workbook, projects, members,
                   panel_assignments, group_id, pc, runs, first_snapshot,
                   prior_store, upload, admin_metadata, response,
                   normVars, editVars, sqlVars, writerVars, authVars>>

\* with open(ADMIN_METADATA_PATH, 'w') as f: json.dump(metadata, f); what
\* the request does after it writes no file
WriteMetadata(p) ==
    /\ pc = "uploads"
    /\ upc[p] = "metadata"
    /\ admin_metadata' =
          Metadata(upload[p], detect_and_normalize_sheets_robust(upload[p].sheet_names))
    /\ upc' = [upc EXCEPT ![p] = "saved"]
    /\ UNCHANGED <<row_data, all_groups, fpc, workbook, projects, members,
                   panel_assignments, group_id, pc, runs, first_snapshot,
                   prior_store, upload, admin_file, response,
                   normVars, editVars, sqlVars, writerVars, authVars>>

\* two accepted uploads of different workbooks have reached save_admin_file
InitRace ==
    /\ row_data = <<>>
    /\ all_groups = <<>>
    /\ fpc = "idle"
    /\ workbook = [div_a |-> <<>>, div_b |-> <<>>, sched |-> <<>>]
    /\ projects = {}
    /\ members = {}
    /\ panel_assignments = {}
    /\ prior_store = EmptyStore
    /\ group_id = None
    /\ pc = "uploads"
    /\ runs = 0
    /\ first_snapshot = EmptyStore
    /\ \E first, second \in AcceptedUploads :
          /\ StoredFile(first) # StoredFile(second)
          /\ upload = <<[first EXCEPT !.filename = "first.xlsx", !.received = "now"],
                        [second EXCEPT !.filename = "second.xlsx", !.received = "then"]>>
    /\ admin_file \in {NoFile, OldFile}
    /\ admin_metadata = IF admin_file = NoFile THEN NoFile ELSE OldMetadata
    /\ response = <<>>
    /\ NormIdle /\ EditIdle /\ SqlIdle /\ WriterIdle /\ AuthIdle
    /\ upc = [p \in Requests |-> "workbook"]

NextRace == \E p \in Requests : WriteWorkbook(p) \/ WriteMetadata(p)

SpecRace == InitRace /\ [][NextRace]_vars

\* C20: once both uploads have finished, the stored workbook and the stored
\* metadata come from the same one of the two, in every interleaving of
\* their writes
Claim_C20_WorkbookAndMetadataSameUpload ==
    (\A p \in Requests : upc[p] = "saved") =>
        \E p \in Requests :
           /\ admin_file = StoredFile(upload[p])
           /\ admin_metadata =
                 Metadata(upload[p],
                          detect_and_normalize_sheets_robust(upload[p].sheet_names))

----------------------------------------------------------------------------
(* Reconciliation runs and cell edits in one history                       *)

InitIngestEdit ==
    /\ workbook \in UploadBooks
    /\ \E store \in PriorStores :
          /\ projects = store.projects
          /\ members = store.members
          /\ panel_assignments = store.panel_assignments
          /\ prior_store = store
    /\ group_id = None
    /\ pc = "start"
    /\ runs = 0
    /\ first_snapshot = EmptyStore
    /\ row_data = <<>>
    /\ all_groups = <<>>
    /\ fpc = "idle"
    /\ upload = <<>>
    /\ admin_file \in {NoFile, EditFile}
    /\ admin_metadata = <<>>
    /\ response = <<>>
    /\ LaterIdle

NextIngestEdit == Next \/ UpdateCellGeneral

SpecIngestEdit == InitIngestEdit /\ [][NextIngestEdit]_vars

\* C21: after any sequence of full ingestion runs and cell edits, the group
\* id of every member is the key of a project
Claim_C21_MemberHasProject ==
    pc = "done" => \A m \in members : HasProject(projects, m.group_id)

----------------------------------------------------------------------------
(* The two cell writers                                                    *)

\* update_cell_preserve_format: the value it stores. None becomes '', a
\* value that is no str, int or float becomes str(value), a str is stripped
\* and 'none', 'null', 'nan' in any case become ''
CleanedValue(value) ==
    IF value.type = "NoneType" THEN PyStr(<<>>)
    ELSE IF value.type = "str"
    THEN LET stripped == str_strip(value.text)
         IN  IF str_lower(stripped) \in {<<"n", "o", "n", "e">>, <<"n", "u", "l", "l">>, <<"n", "a", "n">>}
             THEN PyStr(<<>>) ELSE PyStr(stripped)
    ELSE value

\* update_cell_preserve_format(ws, row, col, value) on one cell: the value is
\* replaced, the style is put back
update_cell_preserve_format(cell, row, col, value) ==
    IF row <= 0 \/ col <= 0 THEN cell
    ELSE [cell EXCEPT !.value = CleanedValue(value)]

\* ws.cell(row=row + 1, column=col + 1, value=new_value) in
\* update_admin_file_cell: openpyxl assigns the value unless it is None
CellWithValue(cell, new_value) ==
    IF new_value.type = "NoneType" THEN cell
    ELSE [cell EXCEPT !.value = new_value]

WriterValues ==
    {PyNone, PyInt(7), PyStr(<<>>), PyStr(<<"N", "e", "w">>), PyStr(<<"n", "o", "n", "e">>), PyStr(<<"N", "o", "n", "e">>),
     PyStr(<<"N", "U", "L", "L">>), PyStr(<<"n", "a", "n">>), PyStr(<<"N", "a", "N">>), PyStr(<<" ", "n", "a", "n", " ">>)}

WriterStyles == {"bold", "regular"}

WriterCalls ==
    [path : {"edit", "export"}, row : 0..2, col : 0..2, value : WriterValues,
     style : WriterStyles]

\* the cell-edit path: update_cell_general hands the value of the JSON
\* body to update_admin_file_cell, which writes row + 1, col + 1
CallUpdateAdminFileCell ==
    /\ pc = "writer"
    /\ writer_call.path = "edit"
    /\ writer_cell.after = <<>>
    /\ writer_cell' = [writer_cell EXCEPT
                          !.after = CellWithValue(writer_cell.before, writer_call.value)]
    /\ UNCHANGED <<coreVars, normVars, editVars, raceVars, sqlVars, writer_call,
                   authVars>>

\* the formatted-export path
CallUpdateCellPreserveFormat ==
    /\ pc = "writer"
    /\ writer_call.path = "export"
    /\ writer_cell.after = <<>>
    /\ writer_cell' = [writer_cell EXCEPT
                          !.after = update_cell_preserve_format(
                                        writer_cell.before, writer_call.row,
                                        writer_call.col, writer_call.value)]
    /\ UNCHANGED <<coreVars, normVars, editVars, raceVars, sqlVars, writer_call,
                   authVars>>

InitWriter ==
    /\ row_data = <<>>
    /\ all_groups = <<>>
    /\ fpc = "idle"
    /\ workbook = [div_a |-> <<>>, div_b |-> <<>>, sched |-> <<>>]
    /\ projects = {}
    /\ members = {}
    /\ panel_assignments = {}
    /\ prior_store = EmptyStore
    /\ group_id = None
    /\ pc = "writer"
    /\ runs = 0
    /\ first_snapshot = EmptyStore
    /\ upload = <<>>
    /\ admin_file = <<>>
    /\ admin_metadata = <<>>
    /\ response = <<>>
    /\ NormIdle /\ EditIdle /\ RaceIdle /\ SqlIdle /\ AuthIdle
    /\ writer_call \in WriterCalls
    /\ writer_cell = [before |-> [value |-> PyStr(<<"O", "l", "d">>), style |-> writer_call.style],
                      after |-> <<>>]

NextWriter == CallUpdateAdminFileCell \/ CallUpdateCellPreserveFormat

SpecWriter == InitWriter /\ [][NextWriter]_vars

\* value is None or 'none', 'null', 'nan' in any case
IsNullValue(value) ==
    \/ value.type = "NoneType"
    \/ value.type = "str" /\ str_lower(value.text) \in {<<"n", "o", "n", "e">>, <<"n", "u", "l", "l">>, <<"n", "a", "n">>}

\* C22: a cell writer, on the cell-edit path as on the formatted-export
\* path, stores the empty string whenever the new value is None or is 'none',
\* 'null' or 'nan' in any case
Claim_C22_NullValuesStoredEmpty ==
    (/\ writer_cell.after # <<>>
     /\ IsNullValue(writer_call.value)
     /\ writer_call.path = "export" => (writer_call.row > 0 /\ writer_call.col > 0))
       => writer_cell.after.value = PyStr(<<>>)

\* the field of the tables that the position tables give a column of a role
MappedField(role, col) ==
    IF role = "schedule"
    THEN <<"track", "panel_professors", "group_ids", "location">>[col + 1]
    ELSE <<"group_id", "roll_no", "student_name", "contact_details",
           "project_domain", "project_title", "sponsor_company", "guide_name">>[col + 1]

EditInRange(role, row, col) ==
    /\ role # "none"
    /\ row >= 1
    /\ col \in (IF role = "schedule" THEN 0..3 ELSE 0..7)

\* the rows of a table that an edit replaced, with their replacements
ChangedRows(before, after) == before \ after

OnlyFieldChanged(before, after, field) ==
    \A a \in before \ after :
       field \in DOMAIN a /\ \E b \in after \ before : b = [a EXCEPT ![field] = b[field]]

\* C23: the relational side of a cell edit changes at most one row, and in
\* it only the field the position table maps from the edited column; an edit
\* with row below 1, with a column outside the table or on a sheet of no role
\* leaves every project, member and panel assignment as it was
Claim_C23_AtMostOneFieldOneRow ==
    [][edit_log' # edit_log =>
          LET data == edit_log'[Len(edit_log')].data
              role == EditRole(data.sheet_name)
          IN  IF ~EditInRange(role, data.row, data.col)
              THEN /\ projects' = projects
                   /\ members' = members
                   /\ panel_assignments' = panel_assignments
              ELSE /\ Cardinality(ChangedRows(projects, projects'))
                        + Cardinality(ChangedRows(members, members'))
                        + Cardinality(ChangedRows(panel_assignments, panel_assignments'))
                      <= 1
                   /\ Cardinality(projects') = Cardinality(projects)
                   /\ Cardinality(members') = Cardinality(members)
                   /\ Cardinality(panel_assignments') = Cardinality(panel_assignments)
                   /\ OnlyFieldChanged(projects, projects', MappedField(role, data.col))
                   /\ OnlyFieldChanged(members, members', MappedField(role, data.col))
                   /\ OnlyFieldChanged(panel_assignments, panel_assignments',
                                       MappedField(role, data.col))]_vars

----------------------------------------------------------------------------
(* What a reader sees during a run                                         *)

\* the panel assignments the schedule walk will commit at the end of the run
PanelsAtEnd ==
    ScheduleWalk([projects |-> projects, panel_assignments |-> panel_assignments],
                 workbook.sched, 1).panel_assignments

\* C24: a run is not isolated from readers. After the committed delete the
\* three tables are empty whatever the store held before, and until the
\* schedule walk commits no panel assignment is visible, although the
\* divisions already are
Thm_C24_ReaderSeesRebuild ==
    /\ pc = "div_a" =>
          projects = {} /\ members = {} /\ panel_assignments = {}
    /\ pc \in {"div_b", "schedule"} => panel_assignments = {}

\* the store held groups before the run and the workbook holds groups; the
\* reader finds projects and members of the new workbook and not one of the
\* panel assignments the run will end with
Wit_C24_ReaderSeesRebuild ==
    /\ pc = "schedule"
    /\ prior_store.projects # {}
    /\ prior_store.panel_assignments # {}
    /\ projects # {}
    /\ members # {}
    /\ panel_assignments = {}
    /\ PanelsAtEnd # {}

----------------------------------------------------------------------------
(* The cell mapping of an import and the edits made through it             *)

\* generate_cell_mapping: the row keys of each sheet. A roster row with a
\* roll number is listed under i + 4, a schedule row with a track under
\* i + 3, i being the index of the row in the data frame (from 0)
generate_cell_mapping(div_a, div_b, sched) ==
    [div_a |-> {(i - 1) + 4 : i \in {i \in DOMAIN div_a : div_a[i].roll_no # Blank}},
     div_b |-> {(i - 1) + 4 : i \in {i \in DOMAIN div_b : div_b[i].roll_no # Blank}},
     schedule |-> {(i - 1) + 3 : i \in {i \in DOMAIN sched : sched[i].track # Blank}}]

\* the columns B, C, D of roll_no, student_name, contact_details
MappedRosterColumns == 1..3

\* the edits a visual editor makes with the mapping of the last import: a
\* listed row of a roster sheet, the column of a mapped field
MappedRequests ==
    LET mapping == generate_cell_mapping(workbook.div_a, workbook.div_b, workbook.sched)
    IN  [sheet_name : {<<"D", "I", "V", " ", "A">>}, row : mapping.div_a, col : MappedRosterColumns,
         value : {<<"7">>, <<"N", "e", "w">>}, old_value : {<<>>}]
        \cup [sheet_name : {<<"D", "I", "V", " ", "B">>}, row : mapping.div_b, col : MappedRosterColumns,
              value : {<<"7">>, <<"N", "e", "w">>}, old_value : {<<>>}]

EditMappedCell ==
    /\ pc = "done"
    /\ UpdateCell(MappedRequests)

\* the stored workbook of the import: three worksheets, the rows and columns
\* the mapping can name
MappedFile ==
    [exists |-> TRUE,
     sheet_names |-> <<<<"D", "i", "v", " ", "A">>, <<"D", "i", "v", " ", "B">>, <<"S", "c", "h", "e", "d">>>>,
     cells |-> [cell \in {<<ws, r, c>> : ws \in 1..3, r \in 1..(MaxRosterRows + 4),
                                         c \in 1..4} |->
                  [value |-> <<"O", "l", "d">>,
                   style |-> [font |-> "regular", alignment |-> "left", border |-> "thin",
                              fill |-> "none", number_format |-> "General"]]]]

InitMapping ==
    /\ workbook \in UploadBooks
    /\ \E store \in PriorStores :
          /\ projects = store.projects
          /\ members = store.members
          /\ panel_assignments = store.panel_assignments
          /\ prior_store = store
    /\ group_id = None
    /\ pc = "start"
    /\ runs = 0
    /\ first_snapshot = EmptyStore
    /\ row_data = <<>>
    /\ all_groups = <<>>
    /\ fpc = "idle"
    /\ upload = <<>>
    /\ admin_file = MappedFile
    /\ admin_metadata = <<>>
    /\ response = <<>>
    /\ LaterIdle

NextMapping == Next \/ EditMappedCell

SpecMapping == InitMapping /\ [][NextMapping]_vars

\* C25: an edit addressed to a row key of the mapping and to the column of a
\* mapped field changes that field of the member ingested from the roster
\* row of that key, and changes no other member and no project
Claim_C25_EditReachesMappedRow ==
    [][edit_log' # edit_log =>
          LET data == edit_log'[Len(edit_log')].data
              d == IF EditRole(data.sheet_name) = "div_a" THEN "A" ELSE "B"
              i == (data.row - 4) + 1
              field == MappedField(EditRole(data.sheet_name), data.col)
          IN  /\ projects' = projects
              /\ \A m \in members :
                    IF m.src_row = <<d, i>>
                    THEN [m EXCEPT ![field] = data.value] \in members'
                    ELSE m \in members']_vars

\* ---------------------------------------------------------------------
\* Password reset: backend/auth.py over backend/otp_storage.py
\* ---------------------------------------------------------------------

\* store_otp(..., expiry_minutes=10), in minutes of the clock
ExpiryMinutes == 10
\* verify_otp refuses once attempts has reached this number
MaxOtpAttempts == 3
\* verify_reset_otp forgets the request once otp_attempts has reached this number
MaxSessionAttempts == 3
\* reset_password refuses passwords shorter than this
MinPasswordLen == 8
\* the clock advances by this many minutes, up to LastMinute
TickMinutes == 6
LastMinute == 12
\* requests answered in one behaviour
MaxRequests == 5

\* the active users of table users, by email, and an email of no user
UserEmails == {"a@x", "b@x"}
RequestEmails == UserEmails \cup {"c@x"}
UserId(email) == IF email = "a@x" THEN 1 ELSE 2
\* generate_otp(): six random digits
OtpCodes == {"111111", "222222"}
Purposes == {"registration", "password_reset"}
Passwords == {<<"P", "a", "s", "s", "w", "0", "r", "d">>, <<"S", "e", "c", "r", "3", "t", "K", "e", "y">>, <<"w", "e", "a", "k">>}
InitialPassword == <<"O", "l", "d", "P", "a", "s", "s", "w", "0", "r", "d">>

\* the key f"{email}_{purpose}" of an OTP in the storage file
OtpKey(email, purpose) == <<email, purpose>>

\* hash_password(password)
hash_password(password) == <<"bcrypt", password>>

WithKey(O, key, otp_data) ==
    [k \in DOMAIN O \cup {key} |-> IF k = key THEN otp_data ELSE O[k]]
WithoutKey(O, key) == [k \in DOMAIN O \ {key} |-> O[k]]

\* OTPStorage.store_otp(email, otp, purpose, expiry_minutes): the entry of
\* the key is replaced, the entries read before the cleaning are written back
store_otp(O, email, otp, purpose, now) ==
    WithKey(O, OtpKey(email, purpose),
            [otp |-> otp, expires_at |-> now + ExpiryMinutes,
             attempts |-> 0, verified |-> FALSE])

\* the check of the attempts in verify_otp
NeverLockedOut(otp_data) == FALSE
LockedOut(otp_data) == otp_data.attempts >= MaxOtpAttempts

\* OTPStorage.verify_otp(email, otp, purpose): the file after the call,
\* and the answer
verify_otp(O, email, otp, purpose, now) ==
    LET key == OtpKey(email, purpose) IN
    IF key \notin DOMAIN O
    THEN [otps |-> O, success |-> FALSE, message |-> "No OTP found"]
    ELSE IF O[key].verified
    THEN [otps |-> O, success |-> FALSE, message |-> "OTP already used"]
    ELSE IF now > O[key].expires_at
    THEN [otps |-> WithoutKey(O, key), success |-> FALSE, message |-> "OTP has expired"]
    ELSE IF LockedOut(O[key])
    THEN [otps |-> O, success |-> FALSE, message |-> "Too many failed attempts"]
    ELSE IF O[key].otp = otp
    THEN [otps |-> [O EXCEPT ![key].verified = TRUE], success |-> TRUE,
          message |-> "OTP verified successfully"]
    ELSE [otps |-> [O EXCEPT ![key].attempts = @ + 1], success |-> FALSE,
          message |-> "Invalid OTP"]

\* OTPStorage.delete_otp(email, purpose)
delete_otp(O, email, purpose) == WithoutKey(O, OtpKey(email, purpose))

\* the password strength checks of reset_password
StrongPassword(password) ==
    /\ Len(password) >= MinPasswordLen
    /\ \E i \in DOMAIN password : IsUpper(password[i])
    /\ \E i \in DOMAIN password : IsLower(password[i])
    /\ \E i \in DOMAIN password : IsDigit(password[i])

\* session.get(key) of a key the session does not hold, both falsy
NoEmail == ""
NoUser == 0

\* a session without the keys of the password reset
EmptySession ==
    [password_reset_email |-> NoEmail, password_reset_user_id |-> NoUser,
     otp_attempts |-> 0, otp_verified |-> FALSE]

AuthFrame ==
    UNCHANGED <<row_data, all_groups, fpc, workbook, projects, members,
                panel_assignments, group_id, pc, runs, first_snapshot,
                prior_store, upload, admin_file, admin_metadata,
                normVars, editVars, raceVars, sqlVars, writerVars>>

\* the request is counted and kept as the last one; verified_for is the
\* email whose OTP the session has verified since the last forgot-password
\* request that was answered with success for a user
Answered(call, verified_for) ==
    /\ auth_log.n < MaxRequests
    /\ auth_log' = [n |-> auth_log.n + 1, call |-> call, verified_for |-> verified_for]

OtpCall(op, email, purpose, otp, success) ==
    [op |-> op, email |-> email, purpose |-> purpose, otp |-> otp, success |-> success]

\* POST /forgot-password
ForgotPassword ==
    /\ pc = "auth"
    /\ \E email \in RequestEmails, otp \in OtpCodes, sent \in BOOLEAN :
          IF email \notin UserEmails
          THEN /\ Answered(OtpCall("forgot_password", email, "password_reset", "", TRUE),
                           auth_log.verified_for)
               /\ response' = [success |-> TRUE, status |-> 200]
               /\ UNCHANGED <<otps, session, users, clock>>
          ELSE /\ otps' = store_otp(otps, email, otp, "password_reset", clock)
               /\ Answered(OtpCall("store_otp", email, "password_reset", otp, sent),
                           IF sent THEN NoEmail ELSE auth_log.verified_for)
               /\ IF sent
                  THEN /\ session' = [session EXCEPT !.password_reset_email = email,
                                                     !.password_reset_user_id = UserId(email)]
                       /\ response' = [success |-> TRUE, status |-> 200]
                  ELSE /\ session' = session
                       /\ response' = [success |-> FALSE, status |-> 500]
               /\ UNCHANGED <<users, clock>>
    /\ AuthFrame

\* POST /verify-reset-otp
VerifyResetOtp ==
    /\ pc = "auth"
    /\ \E otp \in OtpCodes \cup {""} :
          LET email == session.password_reset_email IN
          IF otp = "" \/ email = NoEmail
          THEN /\ Answered(OtpCall("verify_reset_otp", email, "password_reset", otp, FALSE),
                           auth_log.verified_for)
               /\ response' = [success |-> FALSE, status |-> 400]
               /\ UNCHANGED <<otps, session, users, clock>>
          ELSE LET r == verify_otp(otps, email, otp, "password_reset", clock) IN
               /\ otps' = r.otps
               /\ Answered(OtpCall("verify_otp", email, "password_reset", otp, r.success),
                           IF r.success THEN email ELSE auth_log.verified_for)
               /\ IF r.success
                  THEN /\ session' = [session EXCEPT !.otp_verified = TRUE,
                                                     !.otp_attempts = 0]
                       /\ response' = [success |-> TRUE, status |-> 200]
                  ELSE /\ session' =
                            IF session.otp_attempts + 1 >= MaxSessionAttempts
                            THEN [session EXCEPT !.password_reset_email = NoEmail,
                                                 !.password_reset_user_id = NoUser,
                                                 !.otp_attempts = 0]
                            ELSE [session EXCEPT !.otp_attempts = @ + 1]
                       /\ response' = [success |-> FALSE, status |-> 400]
               /\ UNCHANGED <<users, clock>>
    /\ AuthFrame

\* POST /reset-password, new_password and confirm_password being equal
ResetPassword ==
    /\ pc = "auth"
    /\ \E new_password \in Passwords :
          LET email == session.password_reset_email
              user_id == session.password_reset_user_id IN
          IF \/ ~StrongPassword(new_password)
             \/ ~session.otp_verified
             \/ user_id = NoUser
             \/ email = NoEmail
          THEN /\ Answered(OtpCall("reset_password", email, "password_reset", "", FALSE),
                           auth_log.verified_for)
               /\ response' = [success |-> FALSE, status |-> 400]
               /\ UNCHANGED <<otps, session, users, clock>>
          ELSE /\ users' = [u \in DOMAIN users |->
                               IF UserId(u) = user_id
                               THEN [users[u] EXCEPT !.password_hash = hash_password(new_password)]
                               ELSE users[u]]
               /\ session' = [session EXCEPT !.password_reset_email = NoEmail,
                                             !.password_reset_user_id = NoUser,
                                             !.otp_verified = FALSE]
               /\ otps' = delete_otp(otps, email, "password_reset")
               /\ Answered(OtpCall("reset_password", email, "password_reset", "", TRUE),
                           auth_log.verified_for)
               /\ response' = [success |-> TRUE, status |-> 200]
               /\ UNCHANGED clock
    /\ AuthFrame

\* otp_storage.store_otp(email, otp, purpose='registration', expiry_minutes=10)
StoreOtp ==
    /\ pc = "auth"
    /\ \E otp \in OtpCodes :
          /\ otps' = store_otp(otps, "c@x", otp, "registration", clock)
          /\ Answered(OtpCall("store_otp", "c@x", "registration", otp, TRUE),
                      auth_log.verified_for)
    /\ UNCHANGED <<session, users, clock, response>>
    /\ AuthFrame

\* otp_storage.verify_otp(email, otp, purpose='registration')
VerifyOtp ==
    /\ pc = "auth"
    /\ \E otp \in OtpCodes :
          LET r == verify_otp(otps, "c@x", otp, "registration", clock) IN
          /\ otps' = r.otps
          /\ Answered(OtpCall("verify_otp", "c@x", "registration", otp, r.success),
                      auth_log.verified_for)
    /\ UNCHANGED <<session, users, clock, response>>
    /\ AuthFrame

\* datetime.now() advances
Tick ==
    /\ pc = "auth"
    /\ clock + TickMinutes <= LastMinute
    /\ clock' = clock + TickMinutes
    /\ UNCHANGED <<otps, session, users, auth_log, response>>
    /\ AuthFrame

InitAuth ==
    /\ row_data = <<>>
    /\ all_groups = <<>>
    /\ fpc = "idle"
    /\ workbook = [div_a |-> <<>>, div_b |-> <<>>, sched |-> <<>>]
    /\ projects = {}
    /\ members = {}
    /\ panel_assignments = {}
    /\ prior_store = EmptyStore
    /\ group_id = None
    /\ pc = "auth"
    /\ runs = 0
    /\ first_snapshot = EmptyStore
    /\ upload = <<>>
    /\ admin_file = <<>>
    /\ admin_metadata = <<>>
    /\ response = <<>>
    /\ NormIdle /\ EditIdle /\ RaceIdle /\ SqlIdle /\ WriterIdle
    /\ otps = <<>>
    /\ session = EmptySession
    /\ users = [u \in UserEmails |-> [id |-> UserId(u), password_hash |-> hash_password(InitialPassword)]]
    /\ clock = 0
    /\ auth_log = [n |-> 0, call |-> <<>>, verified_for |-> NoEmail]

NextAuth ==
    \/ ForgotPassword
    \/ VerifyResetOtp
    \/ ResetPassword
    \/ StoreOtp
    \/ VerifyOtp
    \/ Tick

SpecAuth == InitAuth /\ [][NextAuth]_vars

\* C26: a reset-password request changes the password of a user only if
\* an OTP issued for that user's own email was verified in the session
\* after the most recent forgot-password request answered for a user
Claim_C26_ResetOnlyAfterOwnOtp ==
    [][\A u \in UserEmails :
          users'[u] # users[u] => auth_log.verified_for = u]_vars

\* the last request answered was a call of verify_otp on a stored OTP that
\* is neither used nor expired
VerifyOfLiveOtp(O, call, now) ==
    /\ call.op = "verify_otp"
    /\ OtpKey(call.email, call.purpose) \in DOMAIN O
    /\ ~O[OtpKey(call.email, call.purpose)].verified
    /\ now <= O[OtpKey(call.email, call.purpose)].expires_at

\* C30: a wrong code given for a live OTP is recorded; once three are
\* recorded for the stored OTP, verify_otp fails whatever code is given,
\* and so it does for an OTP already verified and for a pair without OTP;
\* only store_otp of the same email and purpose lowers the count, clears
\* the mark of a stored OTP or stores an OTP for the pair
Thm_C30_LockoutAndSingleUse ==
    [][auth_log'.n # auth_log.n =>
          LET call == auth_log'.call
              key == OtpKey(call.email, call.purpose) IN
          /\ (/\ call.op = "verify_otp"
              /\ key \in DOMAIN otps
              /\ \/ otps[key].attempts >= MaxOtpAttempts
                 \/ otps[key].verified)
             => /\ ~call.success
                /\ key \in DOMAIN otps' => otps'[key] = otps[key]
          /\ (call.op = "verify_otp" /\ key \notin DOMAIN otps) => ~call.success
          /\ \A k \in DOMAIN otps' \ DOMAIN otps : call.op = "store_otp" /\ key = k
          /\ (/\ VerifyOfLiveOtp(otps, call, clock)
              /\ otps[key].attempts < MaxOtpAttempts
              /\ call.otp # otps[key].otp)
             => /\ ~call.success
                /\ otps'[key].attempts = otps[key].attempts + 1
          /\ \A k \in DOMAIN otps \cap DOMAIN otps' :
                (\/ otps'[k].attempts < otps[k].attempts
                 \/ otps[k].verified /\ ~otps'[k].verified)
                => call.op = "store_otp" /\ key = k]_vars

\* the correct code was given for a live OTP with three wrong codes
\* recorded, and was refused
Wit_C30_LockoutAndSingleUse ==
    /\ auth_log.n > 0
    /\ VerifyOfLiveOtp(otps, auth_log.call, clock)
    /\ otps[OtpKey(auth_log.call.email, auth_log.call.purpose)].attempts = MaxOtpAttempts
    /\ auth_log.call.otp = otps[OtpKey(auth_log.call.email, auth_log.call.purpose)].otp
    /\ ~auth_log.call.success

\* the branch export_formatted_excel takes for a sheet of the stored workbook
ExportRole(sheet_name) ==
    LET sheet_upper == str_upper(sheet_name)
        any(keywords) == \E keyword \in keywords : Contains(sheet_upper, keyword)
    IN  IF any({<<"D", "I", "V", " ", "A">>, <<"D", "I", "V", "A">>, <<"D", "I", "V", "I", "S", "I", "O", "N", " ", "A">>})
        THEN "div_a"
        ELSE IF any({<<"D", "I", "V", " ", "B">>, <<"D", "I", "V", "B">>, <<"D", "I", "V", "I", "S", "I", "O", "N", " ", "B">>})
        THEN "div_b"
        ELSE IF any({<<"S", "C", "H", "E", "D", "U", "L", "E">>, <<"S", "C", "H", "E", "D">>})
        THEN "schedule"
        ELSE "none"

\* C28: the sheet the stored metadata names for a role is given the same
\* role by the cell edit and by the formatted export
Claim_C28_ClassifierAndEditAgree ==
    (admin_metadata # <<>> /\ admin_metadata.exists) =>
        \A role \in Range(Roles) :
            /\ EditRole(admin_metadata.sheet_names[role]) = role
            /\ ExportRole(admin_metadata.sheet_names[role]) = role

\* C29: an import answered with success has left the uploaded workbook and
\* its metadata as the stored ones
Claim_C29_SuccessMeansStored ==
    (pc = "returned" /\ upload.present /\ response.success) =>
        /\ admin_file = StoredFile(upload)
        /\ admin_metadata =
              Metadata(upload, detect_and_normalize_sheets_robust(upload.sheet_names))

----------------------------------------------------------------------------
(* Two reconciliation runs at the same time, each on its own connections   *)

RunsFrame ==
    UNCHANGED <<row_data, all_groups, fpc, workbook, group_id, pc, runs,
                first_snapshot, prior_store, upload, admin_file, admin_metadata,
                response, normVars, editVars, sqlVars, writerVars, authVars>>

\* the three DELETEs of request p and their commit
RunDeleteAll(p) ==
    /\ pc = "runs"
    /\ upc[p] = "start"
    /\ panel_assignments' = {}
    /\ members' = {}
    /\ projects' = DeletedProjects(projects)
    /\ upc' = [upc EXCEPT ![p] = "div_a"]
    /\ RunsFrame

\* process_division_enhanced_with_normalization of request p and its commit
RunDivision(p, division_name, next_upc) ==
    /\ LET df == IF division_name = "A" THEN upload[p].book.div_a
                 ELSE upload[p].book.div_b
           st == process_division_enhanced_with_normalization(
                     df, division_name, None, projects, members)
       IN  /\ projects' = st.projects
           /\ members' = st.members
    /\ upc' = [upc EXCEPT ![p] = next_upc]
    /\ UNCHANGED panel_assignments
    /\ RunsFrame

RunDivisionA(p) ==
    /\ pc = "runs"
    /\ upc[p] = "div_a"
    /\ RunDivision(p, "A", "div_b")

RunDivisionB(p) ==
    /\ pc = "runs"
    /\ upc[p] = "div_b"
    /\ RunDivision(p, "B", "schedule")

\* the schedule walk of request p and its commit
RunSchedule(p) ==
    /\ pc = "runs"
    /\ upc[p] = "schedule"
    /\ LET st == ScheduleWalk([projects |-> projects,
                               panel_assignments |-> panel_assignments],
                              upload[p].book.sched, 1)
       IN  /\ projects' = st.projects
           /\ panel_assignments' = st.panel_assignments
    /\ upc' = [upc EXCEPT ![p] = "done"]
    /\ UNCHANGED members
    /\ RunsFrame

\* what process_all_data_with_normalization leaves when it runs alone
RunAlone(book) ==
    LET a == process_division_enhanced_with_normalization(book.div_a, "A", None, {}, {})
        b == process_division_enhanced_with_normalization(
                 book.div_b, "B", a.group_id, a.projects, a.members)
        s == ScheduleWalk([projects |-> b.projects, panel_assignments |-> {}],
                          book.sched, 1)
    IN  Snapshot(s.projects, b.members, s.panel_assignments)

\* the workbooks of the two requests
RunBooks ==
    UploadBooks \cup
    {[div_a |-> <<RowHeaderCanonical, RowMember22>>,
      div_b |-> <<RowHeaderB, RowMemberB>>,
      sched |-> <<SchedThreeNames>>],
     [div_a |-> <<RowHeaderSurface>>, div_b |-> <<RowHeaderOtherDivision>>, sched |-> <<>>]}

\* two requests with different workbooks have reached the run
InitRuns ==
    /\ row_data = <<>>
    /\ all_groups = <<>>
    /\ fpc = "idle"
    /\ workbook = [div_a |-> <<>>, div_b |-> <<>>, sched |-> <<>>]
    /\ \E store \in PriorStores :
          /\ projects = store.projects
          /\ members = store.members
          /\ panel_assignments = store.panel_assignments
          /\ prior_store = store
    /\ group_id = None
    /\ pc = "runs"
    /\ runs = 0
    /\ first_snapshot = EmptyStore
    /\ \E first, second \in RunBooks :
          /\ RunAlone(first) # RunAlone(second)
          /\ upload = <<[book |-> first], [book |-> second]>>
    /\ admin_file = <<>>
    /\ admin_metadata = <<>>
    /\ response = <<>>
    /\ NormIdle /\ EditIdle /\ SqlIdle /\ WriterIdle /\ AuthIdle
    /\ upc = [p \in Requests |-> "start"]

NextRuns ==
    \E p \in Requests :
        \/ RunDeleteAll(p)
        \/ RunDivisionA(p)
        \/ RunDivisionB(p)
        \/ RunSchedule(p)

SpecRuns == InitRuns /\ [][NextRuns]_vars

\* C27: once both runs have finished, the three tables hold what one of the
\* two runs leaves when it runs alone
Claim_C27_SnapshotOfOneRun ==
    (pc = "runs" /\ \A p \in Requests : upc[p] = "done") =>
        \E p \in Requests :
            Snapshot(projects, members, panel_assignments) = RunAlone(upload[p].book)

====
